---- MODULE Spec2Model ----
(***************************************************************************)
(* Waterway route planner of src/src/utils/routing.ts: geodesy primitives, *)
(* the graph model, the batched graph builder, the endpoint snapper, the   *)
(* Dijkstra solver and the route assembler findWaterwayRoute.              *)
(*                                                                         *)
(* Numbers.  A coordinate is a pair <<lat, lon>> of non-negative integers  *)
(* counting quarters of 1e-6 degree (fixed point, KeyDiv units per sixth   *)
(* decimal), close to the equator.  A distance is a whole number of        *)
(* millimetres.  Floating-point results are rounded to these resolutions   *)
(* where the code rounds to a double.                                      *)
(***************************************************************************)
EXTENDS Integers, Sequences, FiniteSets, TLC

VARIABLES waterwaysData, start, end, boatSpeed, pc, dataToUse, i, graph,
          startNode, endNode, route, result,
          fetchOverpass, requests, corridor, tiles, allElements, concurrent

vars == <<waterwaysData, start, end, boatSpeed, pc, dataToUse, i, graph,
          startNode, endNode, route, result,
          fetchOverpass, requests, corridor, tiles, allElements, concurrent>>

\* The state of the corridor prefetch: whether a fetch collaborator was
\* supplied, the requests handed to it so far, the state of the corridor
\* request, the tile tasks of the fallback, and their merged features.
fetchVars == <<fetchOverpass, requests, corridor, tiles, allElements>>

\* JavaScript null / undefined, as a value comparable with every record.
Null == [null |-> TRUE]

\* A tag that the feature does not carry (el.tags?.x is undefined).
Absent == "absent"

(***************************************************************************)
(* Bounds of the model.                                                    *)
(***************************************************************************)
\* Longest feature list handed to findWaterwayRoute.
MaxFeatures == 2

\* Most vertices in one feature's geometry.
MaxVerts == 4

\* Most vertices in a whole feature list.
MaxTotalVerts == 4

\* Features handled by one uninterrupted builder step (200 in the code),
\* scaled down so that a bounded feature list spans several steps.
BATCH == 1

\* Most calls of the exported graph functions in a row.
MaxCalls == 5

(***************************************************************************)
(* Arithmetic helpers.                                                     *)
(***************************************************************************)
Min(a, b) == IF a < b THEN a ELSE b

Max(a, b) == IF a > b THEN a ELSE b

\* JavaScript Infinity of the solver and the snapper: above every distance
\* and every sum of arc weights the model can form.
Infinity == 1000000000

\* Quotient n / d rounded to the nearest integer, halves upwards (d > 0).
RoundDiv(n, d) == (2 * n + d) \div (2 * d)

RECURSIVE CeilSqrtIn(_, _, _)
\* Least r in lo..hi with r * r >= n, by bisection.
CeilSqrtIn(n, lo, hi) ==
  IF lo >= hi THEN lo
  ELSE LET mid == (lo + hi) \div 2
       IN  IF mid * mid >= n THEN CeilSqrtIn(n, lo, mid)
           ELSE CeilSqrtIn(n, mid + 1, hi)

\* Math.sqrt, rounded up to a whole number.
CeilSqrt(n) == CeilSqrtIn(n, 0, 32767)

(***************************************************************************)
(* Geodesy primitives.                                                     *)
(***************************************************************************)
\* Coordinate units per sixth decimal of a degree.
KeyDiv == 4

\* Squared millimetres per squared coordinate unit:
\* (R * pi / 180 * 0.25e-6 * 1000)^2 = 27.80^2 with R = 6371000.
MmSqPerUnitSq == 773

\* haversine(a, b): great-circle distance.  At the model's scale (a few
\* hundred micro-degrees, next to the equator) 2 R asin(sqrt(s)) is
\* R * sqrt(dLat^2 + dLon^2); the result is in millimetres, rounded up.
haversine(a, b) ==
  LET dLat == b[1] - a[1]
      dLon == b[2] - a[2]
  IN  CeilSqrt(MmSqPerUnitSq * (dLat * dLat + dLon * dLon))

\* nearestPointOnSegment(p, a, b): <<lat, lon, t>> of the point of segment
\* a-b closest to p in the flat (lon, lat) plane; t is kept as the pair
\* <<numerator, denominator>> of the clamped projection parameter.
nearestPointOnSegment(p, a, b) ==
  LET A == <<a[2], a[1]>>
      B == <<b[2], b[1]>>
      P == <<p[2], p[1]>>
      AB == <<B[1] - A[1], B[2] - A[2]>>
      AP == <<P[1] - A[1], P[2] - A[2]>>
      ab2 == AB[1] * AB[1] + AB[2] * AB[2]
      dot == AP[1] * AB[1] + AP[2] * AB[2]
      tn == IF ab2 /= 0 THEN Max(0, Min(ab2, dot)) ELSE 0
      td == IF ab2 /= 0 THEN ab2 ELSE 1
      Q == <<A[1] + RoundDiv(tn * AB[1], td), A[2] + RoundDiv(tn * AB[2], td)>>
  IN  <<Q[2], Q[1], <<tn, td>>>>

(***************************************************************************)
(* Graph model.                                                            *)
(***************************************************************************)
\* Number.prototype.toFixed(6) of a non-negative coordinate: the nearest
\* multiple of 1e-6, the larger one for a tie, as a count of 1e-6 degrees.
toFixed6(x) == (2 * x + KeyDiv) \div (2 * KeyDiv)

\* The key `${lat.toFixed(6)},${lon.toFixed(6)}` of graphAddNode.
nodeKey(lat, lon) == <<toFixed6(lat), toFixed6(lon)>>

\* The graph of a fresh buildGraphFromWaterways call.
EmptyGraph ==
  [nextId |-> 1, nodes |-> <<>>, coords |-> <<>>, adj |-> <<>>,
   segments |-> <<>>]

\* Mutant of graphAddNode: no lookup of the key, every call allocates.
graphAddNode_fresh(lat, lon, g) ==
  LET key == nodeKey(lat, lon)
      id == g.nextId
  IN  [id |-> id,
       graph |-> [g EXCEPT !.nextId = id + 1,
                           !.nodes = (key :> id) @@ g.nodes,
                           !.coords = (id :> <<lat, lon>>) @@ g.coords,
                           !.adj = (id :> <<>>) @@ g.adj]]

\* Mutant of graphAddNode: the id is ++graph.nextId, the counter after its
\* increment.
graphAddNode_preIncrement(lat, lon, g) ==
  LET key == nodeKey(lat, lon)
  IN  IF key \in DOMAIN g.nodes
      THEN [id |-> g.nodes[key], graph |-> g]
      ELSE LET id == g.nextId + 1
           IN  [id |-> id,
                graph |-> [g EXCEPT !.nextId = id,
                                    !.nodes = (key :> id) @@ g.nodes,
                                    !.coords = (id :> <<lat, lon>>) @@ g.coords,
                                    !.adj = (id :> <<>>) @@ g.adj]]

\* graphAddNode(lat, lon, graph): the id for the coordinate and the graph
\* after the call.
graphAddNode(lat, lon, g) ==
  LET key == nodeKey(lat, lon)
  IN  IF key \in DOMAIN g.nodes
      THEN [id |-> g.nodes[key], graph |-> g]
      ELSE LET id == g.nextId
           IN  [id |-> id,
                graph |-> [g EXCEPT !.nextId = id + 1,
                                    !.nodes = (key :> id) @@ g.nodes,
                                    !.coords = (id :> <<lat, lon>>) @@ g.coords,
                                    !.adj = (id :> <<>>) @@ g.adj]]

\* adj with one [neighbour, distance] pair pushed onto the list of id.
adjPush(adj, id, nb, d) == [adj EXCEPT ![id] = Append(@, <<nb, d>>)]

\* graphAddEdge(idA, idB, graph): the graph after the call.
graphAddEdge(idA, idB, g) ==
  LET a == g.coords[idA]
      b == g.coords[idB]
      d == haversine(a, b)
  IN  [g EXCEPT !.adj = adjPush(adjPush(g.adj, idA, idB, d), idB, idA, d),
                !.segments = Append(g.segments,
                                    [a |-> a, b |-> b, idA |-> idA, idB |-> idB])]

(***************************************************************************)
(* Graph builder.                                                          *)
(***************************************************************************)
\* Mutant of navigableTypes: streams pass the type test.
navigableTypes_stream ==
  {"canal", "river", "fairway", "shipyard", "navigation", "stream"}

navigableTypes == {"canal", "river", "fairway", "shipyard", "navigation"}

\* parseFloat of the width strings the model uses.
parseFloat(s) ==
  CASE s = "0" -> 0
    [] s = "5" -> 5
    [] s = "10" -> 10
    [] s = "50" -> 50

\* JavaScript truthiness of a tag value (a string or undefined).
truthy(v) == v /= Absent /\ v /= ""

\* The first river test: width && width < 10 && !boat && !motorboat && !ship;
\* width is el.tags?.width ? parseFloat(el.tags.width) : null, and a width of
\* null or 0 is falsy.
smallRiver(tags) ==
  /\ truthy(tags.width)
  /\ parseFloat(tags.width) /= 0
  /\ parseFloat(tags.width) < 10
  /\ ~truthy(tags.boat)
  /\ ~truthy(tags.motorboat)
  /\ ~truthy(tags.ship)

\* Mutant of noBoatRiver: a yes on another tag outweighs a no.
noBoatRiver_unlessYes(tags) ==
  /\ tags.boat = "no" \/ tags.motorboat = "no" \/ tags.ship = "no"
  /\ tags.boat /= "yes" /\ tags.motorboat /= "yes" /\ tags.ship /= "yes"

\* The second river test: boat === 'no' || motorboat === 'no' || ship === 'no'.
noBoatRiver(tags) ==
  tags.boat = "no" \/ tags.motorboat = "no" \/ tags.ship = "no"

\* TRUE when the loop body of step() reaches the vertex loop for el.
survives(el) ==
  /\ el.type = "way"
  /\ Len(el.geometry) >= 2
  /\ el.tags.waterway /= Absent
  /\ el.tags.waterway \in navigableTypes
  /\ (el.tags.waterway = "river" =>
        ~smallRiver(el.tags) /\ ~noBoatRiver(el.tags))

RECURSIVE addVertices_skipSame(_, _, _, _)
\* Mutant of addVertices: no edge is added from a node to itself.
addVertices_skipSame(coords, j, prevId, g) ==
  IF j > Len(coords) THEN g
  ELSE LET lat == coords[j][1]
           lon == coords[j][2]
           n == graphAddNode(lat, lon, g)
           g2 == IF prevId /= 0 /\ prevId /= n.id
                 THEN graphAddEdge(prevId, n.id, n.graph)
                 ELSE n.graph
       IN  addVertices_skipSame(coords, j + 1, n.id, g2)

RECURSIVE addVertices(_, _, _, _)
\* The vertex loop of step(): j runs over coords, prevId is 0 for null.
addVertices(coords, j, prevId, g) ==
  IF j > Len(coords) THEN g
  ELSE LET lat == coords[j][1]
           lon == coords[j][2]
           n == graphAddNode(lat, lon, g)
           g2 == IF prevId /= 0 THEN graphAddEdge(prevId, n.id, n.graph)
                 ELSE n.graph
       IN  addVertices(coords, j + 1, n.id, g2)

\* One iteration of the feature loop of step().
addElement(el, g) ==
  IF survives(el) THEN addVertices(el.geometry, 1, 0, g) ELSE g

RECURSIVE stepLoop(_, _, _, _)
\* for (; i < end; i++) of step(), features k+1 .. last of els (1-based).
stepLoop(els, k, last, g) ==
  IF k >= last THEN g
  ELSE stepLoop(els, k + 1, last, addElement(els[k + 1], g))

\* Mutant of stepBody: the test for a next batch is i <= elements.length.
stepBody_offByOne(els, k, g) ==
  LET last == Min(Len(els), k + BATCH)
  IN  [i |-> last, graph |-> stepLoop(els, k, last, g),
       done |-> ~(last <= Len(els))]

\* Mutant of stepBody: every batch starts from a graph of its own.
stepBody_reset(els, k, g) ==
  LET last == Min(Len(els), k + BATCH)
  IN  [i |-> last, graph |-> stepLoop(els, k, last, EmptyGraph),
       done |-> ~(last < Len(els))]

\* Mutant of stepBody: end is elements.length, one step takes all the rest.
stepBody_unbounded(els, k, g) ==
  LET last == Len(els)
  IN  [i |-> last, graph |-> stepLoop(els, k, last, g),
       done |-> ~(last < Len(els))]

\* The body of step(): one batch from feature index k; done tells whether
\* the promise is resolved (TRUE) or a timer is set for the next batch.
stepBody(els, k, g) ==
  LET last == Min(Len(els), k + BATCH)
  IN  [i |-> last, graph |-> stepLoop(els, k, last, g),
       done |-> ~(last < Len(els))]

(***************************************************************************)
(* Endpoint snapper.                                                       *)
(***************************************************************************)
\* The initial value of nearest; a null id is written 0.
nearestInit(target) ==
  [dist |-> Infinity, id |-> 0, proj |-> target, idA |-> 0, idB |-> 0,
   t |-> <<0, 1>>]

RECURSIVE scanSegments_last(_, _, _, _)
\* Mutant of scanSegments: the test is d <= nearest.dist, so that of the
\* segments at the least distance the last one is kept.
scanSegments_last(target, segs, k, nearest) ==
  IF k > Len(segs) THEN nearest
  ELSE LET seg == segs[k]
           proj == nearestPointOnSegment(target, seg.a, seg.b)
           d == haversine(target, <<proj[1], proj[2]>>)
       IN  scanSegments_last(target, segs, k + 1,
             IF d <= nearest.dist
             THEN [dist |-> d, id |-> 0, proj |-> <<proj[1], proj[2]>>,
                   idA |-> seg.idA, idB |-> seg.idB, t |-> proj[3]]
             ELSE nearest)

RECURSIVE scanSegments(_, _, _, _)
\* for (const seg of graph.segments) of findNearestGraphNode.
scanSegments(target, segs, k, nearest) ==
  IF k > Len(segs) THEN nearest
  ELSE LET seg == segs[k]
           proj == nearestPointOnSegment(target, seg.a, seg.b)
           d == haversine(target, <<proj[1], proj[2]>>)
       IN  scanSegments(target, segs, k + 1,
             IF d < nearest.dist
             THEN [dist |-> d, id |-> 0, proj |-> <<proj[1], proj[2]>>,
                   idA |-> seg.idA, idB |-> seg.idB, t |-> proj[3]]
             ELSE nearest)

RECURSIVE scanNodes(_, _, _, _)
\* for (const [id, coord] of graph.coords): a Map iterates in insertion
\* order, which is the order of the ids.
scanNodes(target, g, id, nearest) ==
  IF id >= g.nextId THEN nearest
  ELSE LET coord == g.coords[id]
           d == haversine(target, coord)
       IN  scanNodes(target, g, id + 1,
             IF d < nearest.dist
             THEN [dist |-> d, id |-> id, proj |-> coord, idA |-> 0,
                   idB |-> 0, t |-> <<0, 1>>]
             ELSE nearest)

\* Mutant of splice: the arc pushed onto the list of idA names graph.nextId,
\* read after graphAddNode has advanced it, and not tempId.
splice_nextId(nearest, g) ==
  LET n == graphAddNode(nearest.proj[1], nearest.proj[2], g)
      tempId == n.id
      g1 == n.graph
      cleared == [g1.adj EXCEPT ![tempId] = <<>>]
      dA == haversine(nearest.proj, g1.coords[nearest.idA])
      dB == haversine(nearest.proj, g1.coords[nearest.idB])
      adj1 == adjPush(cleared, tempId, nearest.idA, dA)
      adj2 == adjPush(adj1, nearest.idA, g1.nextId, dA)
      adj3 == adjPush(adj2, tempId, nearest.idB, dB)
      adj4 == adjPush(adj3, nearest.idB, tempId, dB)
  IN  [res |-> [id |-> tempId, snapped |-> TRUE, at |-> nearest.proj],
       graph |-> [g1 EXCEPT !.adj = adj4]]

\* Mutant of splice: the two halves of the chosen segment are pushed onto
\* the segment list.
splice_splitSegment(nearest, g) ==
  LET n == graphAddNode(nearest.proj[1], nearest.proj[2], g)
      tempId == n.id
      g1 == n.graph
      cleared == [g1.adj EXCEPT ![tempId] = <<>>]
      dA == haversine(nearest.proj, g1.coords[nearest.idA])
      dB == haversine(nearest.proj, g1.coords[nearest.idB])
      adj1 == adjPush(cleared, tempId, nearest.idA, dA)
      adj2 == adjPush(adj1, nearest.idA, tempId, dA)
      adj3 == adjPush(adj2, tempId, nearest.idB, dB)
      adj4 == adjPush(adj3, nearest.idB, tempId, dB)
  IN  [res |-> [id |-> tempId, snapped |-> TRUE, at |-> nearest.proj],
       graph |-> [g1 EXCEPT
                    !.adj = adj4,
                    !.segments =
                      @ \o <<[a |-> g1.coords[nearest.idA], b |-> nearest.proj,
                              idA |-> nearest.idA, idB |-> tempId],
                             [a |-> nearest.proj, b |-> g1.coords[nearest.idB],
                              idA |-> tempId, idB |-> nearest.idB]>>]]

\* The splice of findNearestGraphNode: the temporary node for nearest.proj,
\* its list emptied, and the four arcs pushed.
splice(nearest, g) ==
  LET n == graphAddNode(nearest.proj[1], nearest.proj[2], g)
      tempId == n.id
      g1 == n.graph
      cleared == [g1.adj EXCEPT ![tempId] = <<>>]
      dA == haversine(nearest.proj, g1.coords[nearest.idA])
      dB == haversine(nearest.proj, g1.coords[nearest.idB])
      adj1 == adjPush(cleared, tempId, nearest.idA, dA)
      adj2 == adjPush(adj1, nearest.idA, tempId, dA)
      adj3 == adjPush(adj2, tempId, nearest.idB, dB)
      adj4 == adjPush(adj3, nearest.idB, tempId, dB)
  IN  [res |-> [id |-> tempId, snapped |-> TRUE, at |-> nearest.proj],
       graph |-> [g1 EXCEPT !.adj = adj4]]

\* Mutant of findNearestGraphNode: the segment branch is entered when snap
\* is set or the graph has segments.
findNearestGraphNode_or(latlng, g, snap) ==
  LET target == <<latlng.lat, latlng.lng>>
  IN  IF snap \/ Len(g.segments) > 0
      THEN LET nearest == scanSegments(target, g.segments, 1,
                                       nearestInit(target))
           IN  IF nearest.idA /= 0 /\ nearest.idB /= 0
               THEN splice(nearest, g)
               ELSE [res |-> Null, graph |-> g]
      ELSE LET nearest == scanNodes(target, g, 1, nearestInit(target))
           IN  IF nearest.id /= 0
               THEN [res |-> [id |-> nearest.id, snapped |-> FALSE,
                              at |-> nearest.proj],
                     graph |-> g]
               ELSE [res |-> Null, graph |-> g]

\* findNearestGraphNode(latlng, graph, snap): the returned value (res) and
\* the graph after the call.
findNearestGraphNode(latlng, g, snap) ==
  LET target == <<latlng.lat, latlng.lng>>
  IN  IF snap /\ Len(g.segments) > 0
      THEN LET nearest == scanSegments(target, g.segments, 1,
                                       nearestInit(target))
           IN  IF nearest.idA /= 0 /\ nearest.idB /= 0
               THEN splice(nearest, g)
               ELSE [res |-> Null, graph |-> g]
      ELSE LET nearest == scanNodes(target, g, 1, nearestInit(target))
           IN  IF nearest.id /= 0
               THEN [res |-> [id |-> nearest.id, snapped |-> FALSE,
                              at |-> nearest.proj],
                     graph |-> g]
               ELSE [res |-> Null, graph |-> g]

(***************************************************************************)
(* Shortest-path solver.                                                   *)
(***************************************************************************)
RECURSIVE flatten(_, _)
\* The Float64Array of buildGraphArrays: list[k..] as v, w, v, w, ...
flatten(list, k) ==
  IF k > Len(list) THEN <<>>
  ELSE <<list[k][1], list[k][2]>> \o flatten(list, k + 1)

\* buildGraphArrays(graph): arrays indexed 0..maxId; a hole (undefined) is
\* Null.
buildGraphArrays(g) ==
  LET maxId == g.nextId - 1
  IN  [length |-> maxId + 1,
       coords |-> [id \in 0..maxId |->
                     IF id \in DOMAIN g.coords THEN g.coords[id] ELSE Null],
       adj |-> [id \in 0..maxId |->
                  IF id \in DOMAIN g.adj THEN flatten(g.adj[id], 1)
                  ELSE Null]]

RECURSIVE selectMin_first(_, _, _, _, _, _)
\* Mutant of selectMin: the first unvisited reached index, not the nearest.
selectMin_first(j, N, dist, visited, u, minDist) ==
  IF j > N THEN u
  ELSE IF ~visited[j] /\ dist[j] < Infinity /\ u = -1
       THEN selectMin_first(j + 1, N, dist, visited, j, dist[j])
       ELSE selectMin_first(j + 1, N, dist, visited, u, minDist)

RECURSIVE selectMin(_, _, _, _, _, _)
\* The inner loop over j: the unvisited index of least distance, the lowest
\* such index for a tie, -1 when every unvisited distance is Infinity.
selectMin(j, N, dist, visited, u, minDist) ==
  IF j > N THEN u
  ELSE IF ~visited[j] /\ dist[j] < minDist
       THEN selectMin(j + 1, N, dist, visited, j, dist[j])
       ELSE selectMin(j + 1, N, dist, visited, u, minDist)

RECURSIVE relax(_, _, _, _)
\* The loop over k of the neighbours row[k], row[k + 1] of u (row is 1-based
\* here); st is the record of the arrays dist, prev and visited.
relax(row, k, u, st) ==
  IF k > Len(row) THEN st
  ELSE LET v == row[k]
           w == row[k + 1]
           nd == st.dist[u] + w
       IN  relax(row, k + 2, u,
                 IF nd < st.dist[v]
                 THEN [st EXCEPT !.dist[v] = nd, !.prev[v] = u]
                 ELSE st)

RECURSIVE dijkstraLoop_noBreakAtEnd(_, _, _, _, _)
\* Mutant of dijkstraLoop: the loop breaks only when u is -1.
dijkstraLoop_noBreakAtEnd(it, N, endId, adj, st) ==
  IF it > N THEN [st EXCEPT !.i = it]
  ELSE LET u == selectMin(0, N, st.dist, st.visited, -1, Infinity)
       IN  IF u = -1 THEN [st EXCEPT !.i = it]
           ELSE LET row == IF adj[u] = Null THEN <<>> ELSE adj[u]
                IN  dijkstraLoop_noBreakAtEnd(it + 1, N, endId, adj,
                      relax(row, 1, u, [st EXCEPT !.visited[u] = TRUE]))

RECURSIVE dijkstraLoop(_, _, _, _, _)
\* for (let i = 0; i <= N; i++) of findShortestPath, from iteration it; the
\* field i of the result is the value of i with which the loop is left.
dijkstraLoop(it, N, endId, adj, st) ==
  IF it > N THEN [st EXCEPT !.i = it]
  ELSE LET u == selectMin(0, N, st.dist, st.visited, -1, Infinity)
       IN  IF u = -1 \/ u = endId THEN [st EXCEPT !.i = it]
           ELSE LET row == IF adj[u] = Null THEN <<>> ELSE adj[u]
                IN  dijkstraLoop(it + 1, N, endId, adj,
                      relax(row, 1, u, [st EXCEPT !.visited[u] = TRUE]))

RECURSIVE walkBack(_, _, _, _)
\* for (let u = endId; u !== 0; u = prev[u]) with its break at startId.
walkBack(u, startId, prev, path) ==
  IF u = 0 THEN path
  ELSE IF u = startId THEN Append(path, u)
       ELSE walkBack(prev[u], startId, prev, Append(path, u))

\* Array.prototype.reverse.
reverse(s) == [k \in 1..Len(s) |-> s[Len(s) + 1 - k]]

\* The arrays of findShortestPath when its selection loop has ended.
solve(startId, endId, g) ==
  LET arrays == buildGraphArrays(g)
      N == arrays.length - 1
      st0 == [dist |-> [j \in 0..N |-> IF j = startId THEN 0 ELSE Infinity],
              prev |-> [j \in 0..N |-> 0],
              visited |-> [j \in 0..N |-> FALSE],
              i |-> 0]
  IN  dijkstraLoop(0, N, endId, arrays.adj, st0)

\* Mutant of findShortestPath: no check of the end node's predecessor.
findShortestPath_unchecked(startId, endId, g) ==
  LET st == solve(startId, endId, g)
  IN  [path |-> reverse(walkBack(endId, startId, st.prev, <<>>)),
       meters |-> st.dist[endId]]

\* findShortestPath(startId, endId, graph): Null or [path, meters].
findShortestPath(startId, endId, g) ==
  LET st == solve(startId, endId, g)
  IN  IF st.prev[endId] = 0 THEN Null
      ELSE [path |-> reverse(walkBack(endId, startId, st.prev, <<>>)),
            meters |-> st.dist[endId]]

(***************************************************************************)
(* Route assembler.                                                        *)
(***************************************************************************)
\* Mutant of routeResult: the minutes are cut off, not rounded.
routeResult_floor(r, g, speed) ==
  LET minutes == (3 * r.meters) \div (5000 * speed)
  IN  [coordinates |-> [k \in 1..Len(r.path) |-> g.coords[r.path[k]]],
       steps |-> <<[distance |-> 1000 * RoundDiv(r.meters, 1000),
                    estimatedTime |-> minutes]>>,
       totalDistance |-> r.meters,
       totalTime |-> minutes]

\* The routeResult of findWaterwayRoute for a solver result r.  boatSpeed is
\* in tenths of km/h and meters in millimetres, so that meters / speedMps /
\* 60 is 3 * mm / (5000 * speed); Math.round rounds halves upwards.
routeResult(r, g, speed) ==
  LET minutes == RoundDiv(3 * r.meters, 5000 * speed)
  IN  [coordinates |-> [k \in 1..Len(r.path) |-> g.coords[r.path[k]]],
       steps |-> <<[distance |-> 1000 * RoundDiv(r.meters, 1000),
                    estimatedTime |-> minutes]>>,
       totalDistance |-> r.meters,
       totalTime |-> minutes]

(***************************************************************************)
(* Corridor prefetch.                                                      *)
(***************************************************************************)
\* The default padding of the corridor, 0.12 degree.
pad == 480000

\* The side of a fallback tile (const step), 0.25 degree.
tileStep == 1000000

\* 90 and 180 degrees, the limits of latitude and longitude.
MaxLat == 360000000

MaxLng == 720000000

\* Number.prototype.toFixed(3) of a bound: the sign, and the nearest count
\* of thousandths of a degree of the absolute value, halves upwards.
toFixed3(x) ==
  LET m == IF x < 0 THEN -x ELSE x
  IN  <<IF x < 0 THEN "-" ELSE "", (2 * m + 1000 * KeyDiv) \div (2000 * KeyDiv)>>

\* The padded and clamped bounds <<s, w, n, e>> of the corridor.
corridorBounds(startLL, endLL) ==
  LET s == Min(startLL.lat, endLL.lat) - pad
      w == Min(startLL.lng, endLL.lng) - pad
      n == Max(startLL.lat, endLL.lat) + pad
      e == Max(startLL.lng, endLL.lng) + pad
  IN  <<Max(-MaxLat, s), Max(-MaxLng, w), Min(MaxLat, n), Min(MaxLng, e)>>

\* A call fetchOverpass(query, key): the bounding box of the query and the
\* key `corr:` of its four bounds.
fetchCall(bbox) ==
  [bbox |-> bbox, key |-> [k \in 1..4 |-> toFixed3(bbox[k])]]

RECURSIVE tileStarts(_, _)
\* The values of a loop for (x = lo; x < hi; x = Math.min(hi, x + step)).
tileStarts(x, hi) ==
  IF x < hi THEN <<x>> \o tileStarts(Min(hi, x + tileStep), hi) ELSE <<>>

RECURSIVE tileRow(_, _, _, _)
\* The inner loop over lon from position k of its values, for one lat.
tileRow(lat, lons, k, bbox) ==
  IF k > Len(lons) THEN <<>>
  ELSE <<<<lat, lons[k], Min(bbox[3], lat + tileStep),
           Min(bbox[4], lons[k] + tileStep)>>>>
       \o tileRow(lat, lons, k + 1, bbox)

RECURSIVE tileGrid(_, _, _)
\* The outer loop over lat from position k of its values: the bounding
\* boxes <<s2, w2, n2, e2>> of the tiles, in the order of their tasks.
tileGrid(lats, k, bbox) ==
  IF k > Len(lats) THEN <<>>
  ELSE tileRow(lats[k], tileStarts(bbox[2], bbox[4]), 1, bbox)
       \o tileGrid(lats, k + 1, bbox)

\* The tiles of the fallback for the corridor bbox.
tileBoxes(bbox) == tileGrid(tileStarts(bbox[1], bbox[3]), 1, bbox)

\* !waterwaysData || !waterwaysData.elements ||
\* waterwaysData.elements.length === 0
insufficient(d) ==
  d = Null \/ "elements" \notin DOMAIN d \/ Len(d.elements) = 0

\* A settled fetchOverpass promise counts as failed when it is rejected or
\* when reading .elements of its value throws (a value of null).
failed(r) == ~r.ok \/ r.data = Null

(***************************************************************************)
(* Inputs.                                                                 *)
(***************************************************************************)
\* Vertices of the supplied geometries: the corners of a triangle.
VertexPoints == {<<0, 0>>, <<0, 800>>, <<600, 200>>}

\* Start coordinates of a route request: a vertex, a coordinate that rounds
\* to the vertex's key, and a coordinate off every geometry.
StartPoints == {<<0, 0>>, <<1, 0>>, <<100, 400>>}

\* End coordinates of a route request, off every geometry: two next to the
\* side from <<0, 0>> to <<0, 800>>, one next to <<600, 200>>.
EndPoints == {<<100, 400>>, <<100, 600>>, <<500, 600>>}

\* Cruising speeds, in tenths of km/h (8.5 km/h is the default).
BoatSpeeds == {85}

\* The speeds of the calls that may fetch: a drift of 0.1 km/h, at which a
\* route of some metres takes minutes, and the default.
FetchSpeeds == {1, 85}

\* Geometries that can form an edge.
Geometries == UNION {[1..n -> VertexPoints] : n \in 2..MaxVerts}

noTags ==
  [waterway |-> Absent, width |-> Absent, boat |-> Absent,
   motorboat |-> Absent, ship |-> Absent]

canalTags == [noTags EXCEPT !.waterway = "canal"]

CanalFeatures ==
  {[type |-> "way", tags |-> canalTags, geometry |-> geo] :
     geo \in Geometries}

RECURSIVE listsWithin(_, _)
\* The lists of at most n canals with at most budget vertices in all.
listsWithin(n, budget) ==
  {<<>>} \cup
  (IF n = 0 THEN {}
   ELSE UNION {{<<f>> \o rest :
                  rest \in listsWithin(n - 1, budget - Len(f.geometry))} :
               f \in {x \in CanalFeatures : Len(x.geometry) <= budget}})

\* Lists of canals of at most MaxFeatures features and MaxTotalVerts
\* vertices.
FeatureLists == listsWithin(MaxFeatures, MaxTotalVerts)

\* Values of the boat tag, and of the motorboat and ship tags.
BoatValues == {Absent, "yes", "no", "private"}

AccessValues == {Absent, "yes", "no"}

WidthValues == {Absent, "0", "5", "10", "50"}

WaterwayValues == navigableTypes \cup {"stream", "drain", "ditch", Absent}

TagSets ==
  [waterway : WaterwayValues, width : WidthValues, boat : BoatValues,
   motorboat : AccessValues, ship : AccessValues]

\* The features of the filter's inputs: every tag set on the line from
\* <<0, 800>> to <<600, 200>>, and a canal that is no line or too short.
TaggedFeatures ==
  {[type |-> "way", tags |-> t, geometry |-> <<<<0, 800>>, <<600, 200>>>>] :
     t \in TagSets}
  \cup {[type |-> "node", tags |-> canalTags,
         geometry |-> <<<<0, 800>>, <<600, 200>>>>],
        [type |-> "way", tags |-> canalTags, geometry |-> <<<<600, 200>>>>]}

\* A tagged feature followed by the canal from <<0, 0>> to <<0, 800>>.
TaggedLists ==
  {<<f, [type |-> "way", tags |-> canalTags,
         geometry |-> <<<<0, 0>>, <<0, 800>>>>]>> : f \in TaggedFeatures}

\* A value that carries no elements field (an Overpass reply of remarks).
NoElements == [remark |-> "runtime error"]

streamTags == [noTags EXCEPT !.waterway = "stream"]

way(tags, geo) == [type |-> "way", tags |-> tags, geometry |-> geo]

\* What the geodata service holds: two canals next to the origin, and far
\* from them four streams, one in each tile of the far corridor.
Catalogue ==
  {way(canalTags, <<<<0, 0>>, <<0, 800>>>>),
   way(canalTags, <<<<0, 800>>, <<600, 200>>>>),
   way(streamTags, <<<<2000000, 0>>, <<2000000, 800>>>>),
   way(streamTags, <<<<2000000, 520001>>, <<2000000, 520003>>>>),
   way(streamTags, <<<<2520001, 0>>, <<2520003, 0>>>>),
   way(streamTags, <<<<2520001, 520001>>, <<2520003, 520003>>>>)}

\* f lies within the bounding box <<s, w, n, e>>.
Within(f, bbox) ==
  \A k \in 1..Len(f.geometry) :
    /\ bbox[1] <= f.geometry[k][1] /\ f.geometry[k][1] <= bbox[3]
    /\ bbox[2] <= f.geometry[k][2] /\ f.geometry[k][2] <= bbox[4]

RECURSIVE listOf(_)
\* The features of a set as a list, in some fixed order.
listOf(S) ==
  IF S = {} THEN <<>>
  ELSE LET f == CHOOSE x \in S : TRUE IN <<f>> \o listOf(S \ {f})

\* The ways a request for bbox settles: rejected, resolved with null, with
\* a value without elements, or with the catalogue's features within bbox.
Responses(bbox) ==
  {[ok |-> FALSE, data |-> Null],
   [ok |-> TRUE, data |-> Null],
   [ok |-> TRUE, data |-> NoElements],
   [ok |-> TRUE,
    data |-> [elements |-> listOf({f \in Catalogue : Within(f, bbox)})]]}

\* Start and end of a short route next to the canals, and of a route long
\* enough for the corridor to span two tiles each way.
NearStarts == {<<0, 0>>, <<100, 400>>}

NearEnds == {<<100, 600>>}

FarStart == <<2000000, 0>>

FarEnd == <<2040004, 40004>>

\* Feature sets handed to a call: absent, without elements, empty, a
\* stream only, one canal, and two canals.
SuppliedData ==
  {Null, NoElements, [elements |-> <<>>],
   [elements |-> <<way(streamTags, <<<<0, 0>>, <<0, 800>>>>)>>],
   [elements |-> <<way(canalTags, <<<<0, 0>>, <<0, 800>>>>)>>],
   [elements |-> <<way(canalTags, <<<<0, 0>>, <<0, 800>>>>),
                   way(canalTags, <<<<0, 800>>, <<600, 200>>>>)>>]}

\* Vertices of which three lie within one and a half millionths of a
\* degree: <<0, 0>> and <<0, 1>> have one key, <<0, 2>> has the next.
KeyPoints == {<<0, 0>>, <<0, 1>>, <<0, 2>>, <<0, 800>>}

KeyFeatures == {way(canalTags, <<a, b>>) : a \in KeyPoints, b \in KeyPoints}

RECURSIVE listsOf(_, _)
\* The lists of at most n features of F.
listsOf(F, n) ==
  {<<>>} \cup
  (IF n = 0 THEN {}
   ELSE UNION {{<<f>> \o rest : rest \in listsOf(F, n - 1)} : f \in F})

KeyLists == listsOf(KeyFeatures, MaxFeatures)

\* Start coordinates that project next to <<0, 0>>, onto another key than
\* every vertex, and midway; end coordinates that project onto the vertex
\* <<0, 800>> and before it.
KeyStarts == {<<100, 1>>, <<100, 400>>}

KeyEnds == {<<100, 600>>, <<100, 800>>}

(***************************************************************************)
(* The route computation findWaterwayRoute(start, end, waterwaysData,      *)
(* boatSpeed) as a state machine.  pc is the position of the call:         *)
(* "begin" before it starts, "timer" while a builder batch is scheduled,   *)
(* "resolved" once the builder's promise is resolved, "snapEnd" and        *)
(* "solve" inside the continuation, "done" when it has returned result.    *)
(***************************************************************************)
\* A call with its arguments drawn from the given sets; fetches tells
\* whether the fifth argument fetchOverpass is supplied.
InitCall(datas, starts, ends, speeds, fetches) ==
  /\ waterwaysData \in datas
  /\ start \in starts
  /\ end \in ends
  /\ boatSpeed \in speeds
  /\ fetchOverpass \in fetches
  /\ pc = "begin"
  /\ dataToUse = Null
  /\ i = 0
  /\ graph = EmptyGraph
  /\ startNode = Null
  /\ endNode = Null
  /\ route = Null
  /\ result = Null
  /\ requests = <<>>
  /\ corridor = "none"
  /\ tiles = <<>>
  /\ allElements = <<>>

\* A call that runs alone: no other call is in progress.
InitOf(datas, starts, ends, speeds, fetches) ==
  /\ InitCall(datas, starts, ends, speeds, fetches)
  /\ concurrent = Null

\* A call without a fetch collaborator, at the default speed.
InitWith(datas, starts, ends) ==
  InitOf(datas, starts, ends, BoatSpeeds, {FALSE})

Init ==
  InitWith({Null} \cup {[elements |-> els] : els \in FeatureLists},
           StartPoints, EndPoints)

\* The filter's inputs, routed from the canal's first vertex to the far
\* vertex of the tagged feature.
InitFilter ==
  InitWith({[elements |-> els] : els \in TaggedLists},
           {<<0, 0>>}, {<<600, 200>>})

\* The data check of findWaterwayRoute on the data to use, and the first
\* batch of buildGraphFromWaterways, which the promise executor runs
\* synchronously.
proceed(data) ==
  /\ dataToUse' = data
  /\ IF data = Null \/ "elements" \notin DOMAIN data
     THEN /\ pc' = "done"
          /\ result' = Null
          /\ UNCHANGED <<i, graph>>
     ELSE LET b == stepBody(data.elements, 0, EmptyGraph)
          IN  /\ i' = b.i
              /\ graph' = b.graph
              /\ pc' = IF b.done THEN "resolved" ELSE "timer"
              /\ UNCHANGED result

\* The call up to its first await: with a collaborator and insufficient
\* data, the corridor request of prefetchWaterwaysForCorridor; otherwise
\* the data check and the first batch.
Begin ==
  /\ pc = "begin"
  /\ IF fetchOverpass /\ insufficient(waterwaysData)
     THEN /\ dataToUse' = waterwaysData
          /\ requests' =
               Append(requests,
                      fetchCall(corridorBounds([lat |-> start[1], lng |-> start[2]],
                                               [lat |-> end[1], lng |-> end[2]])))
          /\ corridor' = "pending"
          /\ pc' = "corridor"
          /\ UNCHANGED <<i, graph, result>>
     ELSE /\ proceed(waterwaysData)
          /\ UNCHANGED <<requests, corridor>>
  /\ UNCHANGED <<waterwaysData, start, end, boatSpeed, startNode, endNode,
                 route, fetchOverpass, tiles, allElements, concurrent>>

\* The corridor request settles.  A value that is not null is returned as
\* the data to use; a rejection, or the exception of reading a null, starts
\* the fallback, which calls fetchOverpass once for every tile.
CorridorSettle ==
  /\ pc = "corridor"
  /\ \E r \in Responses(requests[1].bbox) :
       IF failed(r)
       THEN /\ corridor' = "failed"
            /\ tiles' = [k \in 1..Len(tileBoxes(requests[1].bbox)) |->
                           [bbox |-> tileBoxes(requests[1].bbox)[k],
                            state |-> "pending", data |-> Null]]
            /\ requests' =
                 requests \o [k \in 1..Len(tileBoxes(requests[1].bbox)) |->
                                fetchCall(tileBoxes(requests[1].bbox)[k])]
            /\ allElements' = <<>>
            /\ pc' = "tiles"
            /\ UNCHANGED <<dataToUse, i, graph, result>>
       ELSE /\ corridor' = "fetched"
            /\ proceed(r.data)
            /\ UNCHANGED <<requests, tiles, allElements>>
  /\ UNCHANGED <<waterwaysData, start, end, boatSpeed, startNode, endNode,
                 route, fetchOverpass, concurrent>>

\* Mutant of TileSettle: a failing tile discards what the others brought.
TileSettle_abort(k) ==
  /\ pc = "tiles"
  /\ tiles[k].state = "pending"
  /\ \E r \in Responses(tiles[k].bbox) :
       IF failed(r)
       THEN /\ tiles' = [tiles EXCEPT ![k].state = "failed"]
            /\ allElements' = <<>>
       ELSE /\ tiles' = [tiles EXCEPT ![k].state = "fetched",
                                       ![k].data = r.data]
            /\ allElements' =
                 IF "elements" \in DOMAIN r.data
                 THEN allElements \o r.data.elements
                 ELSE allElements
  /\ UNCHANGED <<waterwaysData, start, end, boatSpeed, pc, dataToUse, i,
                 graph, startNode, endNode, route, result, fetchOverpass,
                 requests, corridor, concurrent>>

\* The request of tile k settles: the elements of its value, if it has
\* any, are pushed onto allElements; a failure is only logged.
TileSettle(k) ==
  /\ pc = "tiles"
  /\ tiles[k].state = "pending"
  /\ \E r \in Responses(tiles[k].bbox) :
       IF failed(r)
       THEN /\ tiles' = [tiles EXCEPT ![k].state = "failed"]
            /\ UNCHANGED allElements
       ELSE /\ tiles' = [tiles EXCEPT ![k].state = "fetched",
                                       ![k].data = r.data]
            /\ allElements' =
                 IF "elements" \in DOMAIN r.data
                 THEN allElements \o r.data.elements
                 ELSE allElements
  /\ UNCHANGED <<waterwaysData, start, end, boatSpeed, pc, dataToUse, i,
                 graph, startNode, endNode, route, result, fetchOverpass,
                 requests, corridor, concurrent>>

\* Promise.allSettled(tasks) is fulfilled: the merged features are the data
\* to use.
TilesSettled ==
  /\ pc = "tiles"
  /\ \A k \in 1..Len(tiles) : tiles[k].state /= "pending"
  /\ proceed([elements |-> allElements])
  /\ UNCHANGED <<waterwaysData, start, end, boatSpeed, startNode, endNode,
                 route, fetchVars, concurrent>>

\* Mutant of step: the feature index is shared with another build, which
\* may have set it back to 0.
step_shared ==
  /\ pc = "timer"
  /\ \E k \in {i, 0} :
       LET b == stepBody(dataToUse.elements, k, graph)
       IN  /\ i' = b.i
           /\ graph' = b.graph
           /\ pc' = IF b.done THEN "resolved" ELSE "timer"
  /\ UNCHANGED <<waterwaysData, start, end, boatSpeed, dataToUse, startNode,
                 endNode, route, result>>
  /\ UNCHANGED <<fetchVars, concurrent>>

\* The timer callback step() of a later batch.
step ==
  /\ pc = "timer"
  /\ LET b == stepBody(dataToUse.elements, i, graph)
     IN  /\ i' = b.i
         /\ graph' = b.graph
         /\ pc' = IF b.done THEN "resolved" ELSE "timer"
  /\ UNCHANGED <<waterwaysData, start, end, boatSpeed, dataToUse, startNode,
                 endNode, route, result>>
  /\ UNCHANGED <<fetchVars, concurrent>>

\* Mutant of SnapStart: no zero-segment check before the snap.
SnapStart_unchecked ==
  /\ pc = "resolved"
  /\ LET r == findNearestGraphNode([lat |-> start[1], lng |-> start[2]],
                                   graph, TRUE)
     IN  /\ startNode' = r.res
         /\ graph' = r.graph
         /\ pc' = "snapEnd"
         /\ UNCHANGED result
  /\ UNCHANGED <<waterwaysData, start, end, boatSpeed, dataToUse, i, endNode,
                 route>>
  /\ UNCHANGED <<fetchVars, concurrent>>

\* Mutant of SnapStart: a graph without segments gives a route without
\* coordinates instead of null.
SnapStart_emptyRoute ==
  /\ pc = "resolved"
  /\ IF Len(graph.segments) = 0
     THEN /\ pc' = "done"
          /\ result' = [coordinates |-> <<>>,
                        steps |-> <<[distance |-> 0, estimatedTime |-> 0]>>,
                        totalDistance |-> 0, totalTime |-> 0]
          /\ UNCHANGED <<graph, startNode>>
     ELSE LET r == findNearestGraphNode([lat |-> start[1], lng |-> start[2]],
                                        graph, TRUE)
          IN  /\ startNode' = r.res
              /\ graph' = r.graph
              /\ pc' = "snapEnd"
              /\ UNCHANGED result
  /\ UNCHANGED <<waterwaysData, start, end, boatSpeed, dataToUse, i, endNode,
                 route>>
  /\ UNCHANGED <<fetchVars, concurrent>>

\* The continuation after the build: the zero-segment check and the snap
\* of the start coordinate.
SnapStart ==
  /\ pc = "resolved"
  /\ IF Len(graph.segments) = 0
     THEN /\ pc' = "done"
          /\ result' = Null
          /\ UNCHANGED <<graph, startNode>>
     ELSE LET r == findNearestGraphNode([lat |-> start[1], lng |-> start[2]],
                                        graph, TRUE)
          IN  /\ startNode' = r.res
              /\ graph' = r.graph
              /\ pc' = "snapEnd"
              /\ UNCHANGED result
  /\ UNCHANGED <<waterwaysData, start, end, boatSpeed, dataToUse, i, endNode,
                 route>>
  /\ UNCHANGED <<fetchVars, concurrent>>

\* The snap of the end coordinate and the check of both snap results.
SnapEnd ==
  /\ pc = "snapEnd"
  /\ LET r == findNearestGraphNode([lat |-> end[1], lng |-> end[2]],
                                   graph, TRUE)
     IN  /\ endNode' = r.res
         /\ graph' = r.graph
         /\ IF startNode = Null \/ r.res = Null
            THEN pc' = "done" /\ result' = Null
            ELSE pc' = "solve" /\ UNCHANGED result
  /\ UNCHANGED <<waterwaysData, start, end, boatSpeed, dataToUse, i,
                 startNode, route>>
  /\ UNCHANGED <<fetchVars, concurrent>>

\* The solver call and the assembly of the returned route.
Solve ==
  /\ pc = "solve"
  /\ LET r == findShortestPath(startNode.id, endNode.id, graph)
     IN  /\ route' = r
         /\ result' = IF r = Null THEN Null
                      ELSE routeResult(r, graph, boatSpeed)
  /\ pc' = "done"
  /\ UNCHANGED <<waterwaysData, start, end, boatSpeed, dataToUse, i, graph,
                 startNode, endNode>>
  /\ UNCHANGED <<fetchVars, concurrent>>

\* Calls on canals whose vertices share keys.
InitKeys ==
  InitOf({[elements |-> els] : els \in KeyLists}, KeyStarts, KeyEnds,
         BoatSpeeds, {FALSE})

\* The steps of a call that does not fetch.
Next == Begin \/ step \/ SnapStart \/ SnapEnd \/ Solve

Spec == Init /\ [][Next]_vars

SpecFilter == InitFilter /\ [][Next]_vars

SpecKeys == InitKeys /\ [][Next]_vars

\* Calls with and without a fetch collaborator: short routes with every
\* supplied feature set, and the long route with no features.
InitFetch ==
  \/ InitOf(SuppliedData, NearStarts, NearEnds, FetchSpeeds, BOOLEAN)
  \/ InitOf({Null, [elements |-> <<>>]}, {FarStart}, {FarEnd}, FetchSpeeds,
            {TRUE})

\* The steps of any call.
NextFetch ==
  \/ Next
  \/ CorridorSettle
  \/ \E k \in 1..Len(tiles) : TileSettle(k)
  \/ TilesSettled

SpecFetch == InitFetch /\ [][NextFetch]_vars

\* The event loop runs every task that is queued (the first run of the
\* call, a timer callback, the continuation of a settled promise), and
\* every request that was issued settles: weak fairness of every action.
\* For the settling of a tile request it is WF_vars.  Each other action A
\* is defined for every value of the data and the graph and changes pc or
\* i, so that <<A>>_vars is enabled exactly where its guard holds, and its
\* weak fairness is written <>[]guard => []<><<A>>_vars.
Fairness ==
  /\ WF_vars(\E k \in 1..Len(tiles) : TileSettle(k))
  /\ (<>[](pc = "begin") => []<><<Begin>>_vars)
  /\ (<>[](pc = "corridor") => []<><<CorridorSettle>>_vars)
  /\ (<>[](pc = "tiles" /\ \A k \in 1..Len(tiles) : tiles[k].state /= "pending")
        => []<><<TilesSettled>>_vars)
  /\ (<>[](pc = "timer" /\ i < Len(dataToUse.elements)) => []<><<step>>_vars)
  /\ (<>[](pc = "resolved") => []<><<SnapStart>>_vars)
  /\ (<>[](pc = "snapEnd") => []<><<SnapEnd>>_vars)
  /\ (<>[](pc = "solve") => []<><<Solve>>_vars)

SpecLive == InitFetch /\ [][NextFetch]_vars /\ Fairness

\* Features of every shape: a canal of three vertices, a canal whose two
\* vertices have one key, a canal of one vertex, a canal that is no way,
\* and a stream.
ShapeFeatures ==
  {way(canalTags, <<<<0, 0>>, <<0, 800>>, <<600, 200>>>>),
   way(canalTags, <<<<0, 0>>, <<0, 1>>>>),
   way(canalTags, <<<<0, 800>>>>),
   [type |-> "node", tags |-> canalTags,
    geometry |-> <<<<0, 800>>, <<600, 200>>>>],
   way(streamTags, <<<<600, 200>>, <<0, 0>>>>)}

\* Lists of up to two batches and a feature.
ShapeLists == listsOf(ShapeFeatures, 2 * BATCH + 1)

InitShapes ==
  InitOf({[elements |-> els] : els \in ShapeLists}, {<<100, 400>>},
         {<<100, 600>>}, BoatSpeeds, {FALSE})

SpecShapes == InitShapes /\ [][Next]_vars

(***************************************************************************)
(* Two calls in progress.  The variables above are those of one call; the  *)
(* variable concurrent is a record of the arguments and local variables of *)
(* a second call of findWaterwayRoute that was started without a           *)
(* collaborator, with pc its position, or Null when there is none.  Each   *)
(* call has the graph object its own buildGraphFromWaterways call made     *)
(* (routing.ts:60-66) and the index i of its own closure.                  *)
(***************************************************************************)
\* A call without a collaborator, from position c.pc to its next position.
findWaterwayRouteStep(c) ==
  CASE c.pc = "begin" ->
         IF c.waterwaysData = Null \/ "elements" \notin DOMAIN c.waterwaysData
         THEN [c EXCEPT !.dataToUse = c.waterwaysData, !.pc = "done",
                        !.result = Null]
         ELSE LET b == stepBody(c.waterwaysData.elements, 0, EmptyGraph)
              IN  [c EXCEPT !.dataToUse = c.waterwaysData, !.i = b.i,
                            !.graph = b.graph,
                            !.pc = IF b.done THEN "resolved" ELSE "timer"]
    [] c.pc = "timer" ->
         LET b == stepBody(c.dataToUse.elements, c.i, c.graph)
         IN  [c EXCEPT !.i = b.i, !.graph = b.graph,
                       !.pc = IF b.done THEN "resolved" ELSE "timer"]
    [] c.pc = "resolved" ->
         IF Len(c.graph.segments) = 0
         THEN [c EXCEPT !.pc = "done", !.result = Null]
         ELSE LET r == findNearestGraphNode(
                         [lat |-> c.start[1], lng |-> c.start[2]], c.graph, TRUE)
              IN  [c EXCEPT !.startNode = r.res, !.graph = r.graph,
                            !.pc = "snapEnd"]
    [] c.pc = "snapEnd" ->
         LET r == findNearestGraphNode(
                    [lat |-> c.end[1], lng |-> c.end[2]], c.graph, TRUE)
         IN  IF c.startNode = Null \/ r.res = Null
             THEN [c EXCEPT !.endNode = r.res, !.graph = r.graph,
                            !.pc = "done", !.result = Null]
             ELSE [c EXCEPT !.endNode = r.res, !.graph = r.graph,
                            !.pc = "solve"]
    [] c.pc = "solve" ->
         LET r == findShortestPath(c.startNode.id, c.endNode.id, c.graph)
         IN  [c EXCEPT !.route = r,
                       !.result = IF r = Null THEN Null
                                  ELSE routeResult(r, c.graph, c.boatSpeed),
                       !.pc = "done"]

\* Mutant of ConcurrentStep: the graph is one object of the module, which
\* every build fills and every call reads.
ConcurrentStep_moduleGraph ==
  /\ concurrent /= Null
  /\ concurrent.pc /= "done"
  /\ concurrent' = findWaterwayRouteStep([concurrent EXCEPT !.graph = graph])
  /\ graph' = concurrent'.graph
  /\ UNCHANGED <<waterwaysData, start, end, boatSpeed, pc, dataToUse, i,
                 startNode, endNode, route, result, fetchVars>>

\* A step of the second call: it reads and writes its own variables only.
ConcurrentStep ==
  /\ concurrent /= Null
  /\ concurrent.pc /= "done"
  /\ concurrent' = findWaterwayRouteStep(concurrent)
  /\ UNCHANGED <<waterwaysData, start, end, boatSpeed, pc, dataToUse, i,
                 graph, startNode, endNode, route, result, fetchVars>>

\* The canals of the overlapping calls: two that meet in the node of the
\* keys of <<0, 0>> and <<0, 1>>.
TwoFeatures ==
  {way(canalTags, <<<<0, 0>>, <<0, 800>>>>),
   way(canalTags, <<<<0, 1>>, <<600, 200>>>>)}

\* Feature lists of the longest length, which take more than one batch.
TwoLists == [1..MaxFeatures -> TwoFeatures]

TwoStarts == {<<100, 400>>}

TwoEnds == {<<100, 600>>, <<500, 600>>}

\* Two calls that have both been made and have not started to run.
InitTwo ==
  /\ InitCall({[elements |-> els] : els \in TwoLists}, TwoStarts, TwoEnds,
              BoatSpeeds, {FALSE})
  /\ concurrent \in
       {[waterwaysData |-> [elements |-> els], start |-> s, end |-> e,
         boatSpeed |-> v, pc |-> "begin", dataToUse |-> Null, i |-> 0,
         graph |-> EmptyGraph, startNode |-> Null, endNode |-> Null,
         route |-> Null, result |-> Null] :
          els \in TwoLists, s \in TwoStarts, e \in TwoEnds, v \in BoatSpeeds}

\* A step of either call: the event loop runs the tasks of both in any
\* order.
NextTwo == Next \/ ConcurrentStep

SpecTwo == InitTwo /\ [][NextTwo]_vars

(***************************************************************************)
(* The exported graph functions called one after another on one graph, as  *)
(* a caller other than findWaterwayRoute may do.  Here pc names the        *)
(* function called last ("begin" before the first call), i counts the      *)
(* calls, start is the coordinate of                                       *)
(* the last findNearestGraphNode call and startNode the value it returned, *)
(* route the value the last findShortestPath call returned.                *)
(***************************************************************************)
\* Coordinates handed to graphAddNode: two of one key, and one far off.
ApiPoints == {<<0, 0>>, <<0, 1>>, <<0, 800>>}

\* Coordinates handed to findNearestGraphNode: as near to <<0, 0>> as to
\* <<0, 800>>, and nearer to <<0, 800>>.
ApiQueries == {<<100, 400>>, <<100, 600>>}

InitApi ==
  /\ InitCall({Null}, {<<0, 0>>}, {<<0, 0>>}, BoatSpeeds, {FALSE})
  /\ concurrent = Null

\* What a call of the sequence leaves as it is.
apiFrame ==
  <<waterwaysData, end, boatSpeed, dataToUse, endNode, result, fetchVars,
    concurrent>>

CallGraphAddNode ==
  /\ i < MaxCalls
  /\ \E p \in ApiPoints : graph' = graphAddNode(p[1], p[2], graph).graph
  /\ pc' = "graphAddNode"
  /\ i' = i + 1
  /\ UNCHANGED <<start, startNode, route, apiFrame>>

CallGraphAddEdge ==
  /\ i < MaxCalls
  /\ \E idA \in DOMAIN graph.coords : \E idB \in DOMAIN graph.coords :
       graph' = graphAddEdge(idA, idB, graph)
  /\ pc' = "graphAddEdge"
  /\ i' = i + 1
  /\ UNCHANGED <<start, startNode, route, apiFrame>>

CallFindNearestGraphNode ==
  /\ i < MaxCalls
  /\ \E q \in ApiQueries : \E snap \in BOOLEAN :
       LET r == findNearestGraphNode([lat |-> q[1], lng |-> q[2]], graph, snap)
       IN  /\ graph' = r.graph
           /\ startNode' = r.res
           /\ start' = q
           /\ pc' = IF snap THEN "findNearestGraphNode(snap)"
                    ELSE "findNearestGraphNode"
  /\ i' = i + 1
  /\ UNCHANGED <<route, apiFrame>>

CallFindShortestPath ==
  /\ i < MaxCalls
  /\ \E startId \in DOMAIN graph.coords : \E endId \in DOMAIN graph.coords :
       route' = findShortestPath(startId, endId, graph)
  /\ pc' = "findShortestPath"
  /\ i' = i + 1
  /\ UNCHANGED <<graph, start, startNode, apiFrame>>

NextApi ==
  \/ CallGraphAddNode
  \/ CallGraphAddEdge
  \/ CallFindNearestGraphNode
  \/ CallFindShortestPath

SpecApi == InitApi /\ [][NextApi]_vars

(***************************************************************************)
(* Vocabulary of the properties.                                           *)
(***************************************************************************)
Range(f) == {f[x] : x \in DOMAIN f}

NodeIds(g) == DOMAIN g.coords

\* The arcs <<from, to, weight>> of the adjacency lists.
Arcs(g) ==
  UNION {{<<u, e[1], e[2]>> : e \in Range(g.adj[u])} : u \in DOMAIN g.adj}

\* The weights of the arcs from u to v.
ArcWeights(g, u, v) == {e[2] : e \in {x \in Range(g.adj[u]) : x[1] = v}}

MinOf(S) == CHOOSE x \in S : \A y \in S : x <= y

\* Sum of two path weights, Infinity when either path is missing.
Plus(a, b) == IF a >= Infinity \/ b >= Infinity THEN Infinity ELSE a + b

RECURSIVE viaNodes(_, _, _)
\* Floyd-Warshall: from the least weights D of the paths whose inner nodes
\* are outside rest, the least weights of all paths.
viaNodes(ids, D, rest) ==
  IF rest = {} THEN D
  ELSE LET k == CHOOSE x \in rest : TRUE
       IN  viaNodes(ids,
                    [u \in ids |-> [v \in ids |->
                       Min(D[u][v], Plus(D[u][k], D[k][v]))]],
                    rest \ {k})

\* LeastWeights(g)[s][e]: least total weight of an arc-path from s to e in
\* g, Infinity if there is none (0 from a node to itself).
LeastWeights(g) ==
  viaNodes(NodeIds(g),
           [u \in NodeIds(g) |-> [v \in NodeIds(g) |->
              IF u = v THEN 0
              ELSE IF ArcWeights(g, u, v) = {} THEN Infinity
              ELSE MinOf(ArcWeights(g, u, v))]],
           NodeIds(g))

RECURSIVE pathWeight(_, _, _)
\* Sum over the consecutive pairs of path, from position k, of the least
\* weight of an arc joining them.
pathWeight(g, path, k) ==
  IF k >= Len(path) THEN 0
  ELSE MinOf(ArcWeights(g, path[k], path[k + 1])) + pathWeight(g, path, k + 1)

\* r is an arc-path from s to e of total weight r.meters, and least is the
\* least weight of an arc-path from s to e.
ShortestFromTo(g, s, e, r, least) ==
  /\ Len(r.path) >= 1
  /\ r.path[1] = s
  /\ r.path[Len(r.path)] = e
  /\ \A k \in 1..(Len(r.path) - 1) :
       ArcWeights(g, r.path[k], r.path[k + 1]) /= {}
  /\ pathWeight(g, r.path, 1) = r.meters
  /\ r.meters = least

\* The positions at which the graph is complete: built, snapped once, and
\* snapped twice.
GraphStage == pc \in {"resolved", "snapEnd", "solve"}

\* The graph has been snapped on both ends.
Snapped == pc \in {"solve", "done"} /\ startNode /= Null /\ endNode /= Null

\* C1: whenever findShortestPath returns a result, on the graph of any stage
\* of the computation and for any two of its nodes, the path starts at
\* startId, ends at endId, follows arcs of the adjacency lists, its arc
\* weights sum to the returned meters, and no arc-path between the two nodes
\* weighs less.
C1_ShortestPath ==
  GraphStage =>
    LET least == LeastWeights(graph)
    IN  \A s \in NodeIds(graph) : \A e \in NodeIds(graph) :
          LET r == findShortestPath(s, e, graph)
          IN  r /= Null => ShortestFromTo(graph, s, e, r, least[s][e])

\* The solver has returned a path of at least two arcs although a first arc
\* towards another neighbour also leads to the end node, at a greater total.
C1_Witness ==
  /\ pc = "done"
  /\ route /= Null
  /\ Len(route.path) >= 3
  /\ \E a \in Arcs(graph) :
       /\ a[1] = startNode.id
       /\ a[2] /= route.path[2]
       /\ LeastWeights(graph)[a[2]][endNode.id] < Infinity
       /\ a[3] + LeastWeights(graph)[a[2]][endNode.id] > route.meters

\* The graph that one uninterrupted pass over els builds.
BuildOf(els) == stepLoop(els, 0, Len(els), EmptyGraph)

\* The nearest-segment choice of the snapper for coordinate q on the built
\* graph (a snap leaves the segment list as it is).
Chosen(q) == scanSegments(q, graph.segments, 1, nearestInit(q))

\* Least length of a way along the built network between the projections
\* of start and end: along the shared segment when both project onto the
\* same one, or from the start projection to an end of its segment, along
\* built edges, and from an end of the end projection's segment to it.
NetworkDistance ==
  LET b == BuildOf(dataToUse.elements)
      ns == Chosen(start)
      ne == Chosen(end)
      least == LeastWeights(b)
      viaEnds ==
        MinOf({Plus(Plus(haversine(ns.proj, b.coords[x]), least[x][y]),
                    haversine(b.coords[y], ne.proj)) :
                 x \in {ns.idA, ns.idB}, y \in {ne.idA, ne.idB}})
  IN  IF {ns.idA, ns.idB} = {ne.idA, ne.idB}
      THEN Min(haversine(ns.proj, ne.proj), viaEnds)
      ELSE viaEnds

\* C2: the totalDistance of a returned route is the least length of a way
\* along the built network between the projected start and end points.
C2_ShortestNavigable ==
  (pc = "done" /\ result /= Null) => result.totalDistance = NetworkDistance

RECURSIVE component(_, _)
\* The nodes joined to a node of seen by arcs (either way) or segments.
component(g, seen) ==
  LET more ==
        {a[2] : a \in {b \in Arcs(g) : b[1] \in seen}}
        \cup {a[1] : a \in {b \in Arcs(g) : b[2] \in seen}}
        \cup {sg.idB : sg \in {x \in Range(g.segments) : x.idA \in seen}}
        \cup {sg.idA : sg \in {x \in Range(g.segments) : x.idB \in seen}}
  IN  IF more \subseteq seen THEN seen ELSE component(g, seen \cup more)

\* C3: for two nodes in different connected components findShortestPath
\* returns null, a route computation whose snapped nodes are in different
\* components returns null, and a path that is returned ends at the end
\* node.
C3_NoPathAcrossComponents ==
  /\ GraphStage =>
       \A s \in NodeIds(graph) :
         \A e \in NodeIds(graph) \ component(graph, {s}) :
           findShortestPath(s, e, graph) = Null
  /\ (pc = "done" /\ startNode /= Null /\ endNode /= Null) =>
       /\ endNode.id \notin component(graph, {startNode.id}) =>
            route = Null /\ result = Null
       /\ route /= Null =>
            /\ route.path[1] = startNode.id
            /\ route.path[Len(route.path)] = endNode.id
            /\ result /= Null

\* Both coordinates were snapped, onto different components, and the
\* computation returned null.
C3_Witness ==
  /\ pc = "done"
  /\ startNode /= Null
  /\ endNode /= Null
  /\ endNode.id \notin component(graph, {startNode.id})
  /\ result = Null

\* A step that calls findNearestGraphNode(q, graph, true) on a graph with a
\* segment; q is its coordinate and Returned the value it returns.
SnapStep == pc \in {"resolved", "snapEnd"} /\ Len(graph.segments) > 0

SnapQuery == IF pc = "resolved" THEN start ELSE end

Returned == IF pc = "resolved" THEN startNode' ELSE endNode'

\* C4: a snapping call removes no arc: every entry of every adjacency list
\* is still in that list after the call, and every entry that is new joins
\* the spliced node and an end of the chosen segment.
C4_NoArcRemoved ==
  [][SnapStep =>
       /\ \A u \in DOMAIN graph.adj :
            \A e \in Range(graph.adj[u]) : e \in Range(graph'.adj[u])
       /\ \A a \in Arcs(graph') \ Arcs(graph) :
            \/ a[1] = Returned.id /\ a[2] \in {Chosen(SnapQuery).idA,
                                               Chosen(SnapQuery).idB}
            \/ a[2] = Returned.id /\ a[1] \in {Chosen(SnapQuery).idA,
                                               Chosen(SnapQuery).idB}]_vars

\* C5: a snapping call adds exactly one node, whose id is the previous
\* nextId, and leaves that node with exactly two adjacency entries, one to
\* each end of the chosen segment.
C5_OneNewNode ==
  [][SnapStep =>
       /\ graph'.nextId = graph.nextId + 1
       /\ NodeIds(graph') = NodeIds(graph) \cup {graph.nextId}
       /\ graph.nextId \notin NodeIds(graph)
       /\ Returned.id = graph.nextId
       /\ Len(graph'.adj[Returned.id]) = 2
       /\ graph'.adj[Returned.id][1][1] = Chosen(SnapQuery).idA
       /\ graph'.adj[Returned.id][2][1] = Chosen(SnapQuery).idB]_vars

\* C6: when the snapped coordinate has the key of an existing node X, the
\* solver finds from the returned node, after the snap, a path to an end
\* node exactly when it found one from X before the snap, and of the same
\* length.
C6_SnapOnNodeKeepsRouting ==
  [][(SnapStep /\ nodeKey(SnapQuery[1], SnapQuery[2]) \in DOMAIN graph.nodes) =>
       LET X == graph.nodes[nodeKey(SnapQuery[1], SnapQuery[2])]
       IN  \A e \in NodeIds(graph) :
             LET before == findShortestPath(X, e, graph)
                 after == findShortestPath(Returned.id, e, graph')
             IN  /\ (before = Null) = (after = Null)
                 /\ before /= Null => before.meters = after.meters]_vars

\* C7: from a node to itself findShortestPath returns the one-node path of
\* length 0, and a route computation whose coordinates snap to the same
\* node returns a route.
C7_SameNodeRoute ==
  /\ GraphStage =>
       \A s \in NodeIds(graph) :
         findShortestPath(s, s, graph) = [path |-> <<s>>, meters |-> 0]
  /\ (pc = "done" /\ startNode /= Null /\ endNode /= Null
        /\ startNode.id = endNode.id) => result /= Null

\* The features handled so far by the builder.
Handled == SubSeq(dataToUse.elements, 1, i)

\* The positions at which the graph holds the builder's work only.
BuildStage == pc \in {"timer", "resolved"}

\* The waterway types the filter is to let through.
AccessibleTypes == {"canal", "river", "fairway", "shipyard", "navigation"}

HasAccessibleType(el) == el.tags.waterway \in AccessibleTypes

\* The vertices of the features of els that have an accessible type.
AccessibleVertices(els) ==
  UNION {Range(el.geometry) :
           el \in {x \in Range(els) : HasAccessibleType(x)}}

\* C8: the built graph is the graph of the features with an accessible type
\* alone, each of its nodes and segment ends is a vertex of such a feature,
\* and a returned route visits only such vertices and the two projected
\* points.
C8_OnlyAccessibleTypes ==
  /\ BuildStage =>
       /\ graph = BuildOf(SelectSeq(Handled, HasAccessibleType))
       /\ \A id \in NodeIds(graph) :
            graph.coords[id] \in AccessibleVertices(Handled)
       /\ \A sg \in Range(graph.segments) :
            {sg.a, sg.b} \subseteq AccessibleVertices(Handled)
  /\ (pc = "done" /\ result /= Null) =>
       \A c \in Range(result.coordinates) :
         c \in AccessibleVertices(dataToUse.elements)
                 \cup {startNode.at, endNode.at}

\* A line feature of another type (a stream, a drain, a ditch or untagged)
\* was handled, a canal was built, and the route returned stays on the
\* canal.
C8_Witness ==
  /\ pc = "done"
  /\ result /= Null
  /\ Len(graph.segments) = 1
  /\ \E el \in Range(dataToUse.elements) :
       /\ el.type = "way"
       /\ Len(el.geometry) >= 2
       /\ ~HasAccessibleType(el)
       /\ \E v \in Range(el.geometry) :
            nodeKey(v[1], v[2]) \notin DOMAIN graph.nodes

\* A river whose declared width is below 10 and that no boat, motorboat or
\* ship tag marks as accessible.
NarrowUnmarkedRiver(el) ==
  /\ el.tags.waterway = "river"
  /\ el.tags.width /= Absent
  /\ parseFloat(el.tags.width) < 10
  /\ el.tags.boat /= "yes"
  /\ el.tags.motorboat /= "yes"
  /\ el.tags.ship /= "yes"

NotNarrowUnmarkedRiver(el) == ~NarrowUnmarkedRiver(el)

\* C9: a river with a declared width below 10 and no boat, motorboat or
\* ship tag of value yes is discarded: the built graph is the graph of the
\* other features.
C9_NarrowRiverDiscarded ==
  BuildStage => graph = BuildOf(SelectSeq(Handled, NotNarrowUnmarkedRiver))

\* A river one of whose boat, motorboat and ship tags is no.
ClosedRiver(el) ==
  /\ el.tags.waterway = "river"
  /\ (el.tags.boat = "no" \/ el.tags.motorboat = "no" \/ el.tags.ship = "no")

NotClosedRiver(el) == ~ClosedRiver(el)

\* C10: a river with a boat, motorboat or ship tag of value no is
\* discarded, whatever its width and its other tags: the built graph is the
\* graph of the other features.
C10_ClosedRiverDiscarded ==
  BuildStage => graph = BuildOf(SelectSeq(Handled, NotClosedRiver))

\* A river 50 wide with boat=no, or with motorboat=yes and ship=no, was
\* handled and its far vertex is no node of the built graph.
C10_Witness ==
  /\ pc = "resolved"
  /\ \E el \in Range(dataToUse.elements) :
       /\ el.type = "way"
       /\ Len(el.geometry) >= 2
       /\ el.tags.waterway = "river"
       /\ \/ el.tags.width = "50" /\ el.tags.boat = "no"
          \/ el.tags.motorboat = "yes" /\ el.tags.ship = "no"
       /\ \E v \in Range(el.geometry) :
            nodeKey(v[1], v[2]) \notin DOMAIN graph.nodes

\* The coordinates handed to graphAddNode so far: the vertices of the
\* handled features that pass the filter, and the projections of the snaps.
CoordsSeen ==
  UNION {Range(el.geometry) : el \in {x \in Range(Handled) : survives(x)}}
  \cup (IF startNode /= Null THEN {startNode.at} ELSE {})
  \cup (IF endNode /= Null THEN {endNode.at} ELSE {})

\* The coordinate rounded to six decimals.
SixDecimals(c) ==
  <<(c[1] + KeyDiv \div 2) \div KeyDiv, (c[2] + KeyDiv \div 2) \div KeyDiv>>

\* The ends of segments at node id, as the arcs they stand for.
SegmentEnds(g, id) ==
  {<<k, 1>> : k \in {x \in 1..Len(g.segments) : g.segments[x].idA = id}}
  \cup {<<k, 2>> : k \in {x \in 1..Len(g.segments) : g.segments[x].idB = id}}

\* C11: at every point of a computation the keys of the graph are the
\* six-decimal roundings of the coordinates handed to graphAddNode so far,
\* each key has an id of its own, and the node count is the number of keys;
\* of two further calls the second returns the id of the first exactly when
\* the coordinates round alike, and a call for a key seen before returns the
\* id it has; in the built graph a node has one adjacency entry for every
\* end of a segment at it, whichever feature the segment came from.
C11_NodeDedup ==
  (pc \in {"timer", "resolved", "snapEnd", "solve", "done"}
     /\ dataToUse /= Null) =>
    /\ DOMAIN graph.nodes = {SixDecimals(c) : c \in CoordsSeen}
    /\ \A k1 \in DOMAIN graph.nodes : \A k2 \in DOMAIN graph.nodes :
         k1 /= k2 => graph.nodes[k1] /= graph.nodes[k2]
    /\ Cardinality(DOMAIN graph.nodes) = graph.nextId - 1
    /\ NodeIds(graph) = 1..(graph.nextId - 1)
    /\ \A p \in KeyPoints \cup {<<0, 3>>} :
         LET first == graphAddNode(p[1], p[2], graph)
         IN  /\ (SixDecimals(p) \in DOMAIN graph.nodes =>
                   /\ first.id = graph.nodes[SixDecimals(p)]
                   /\ first.graph = graph)
             /\ \A q \in KeyPoints \cup {<<0, 3>>} :
                  (graphAddNode(q[1], q[2], first.graph).id = first.id)
                    <=> (SixDecimals(p) = SixDecimals(q))
    /\ BuildStage =>
         \A id \in NodeIds(graph) :
           /\ Len(graph.adj[id]) = Cardinality(SegmentEnds(graph, id))
           /\ \A sg \in Range(graph.segments) :
                /\ sg.idA = id =>
                     <<sg.idB, haversine(sg.a, sg.b)>> \in Range(graph.adj[id])
                /\ sg.idB = id =>
                     <<sg.idA, haversine(sg.a, sg.b)>> \in Range(graph.adj[id])

\* Two features were built that meet in one node through vertices of
\* different coordinates and one key, and the node has an arc of each.
C11_Witness ==
  /\ pc = "resolved"
  /\ Len(dataToUse.elements) = 2
  /\ dataToUse.elements[1].geometry = <<<<0, 800>>, <<0, 0>>>>
  /\ dataToUse.elements[2].geometry = <<<<0, 1>>, <<0, 2>>>>
  /\ graph.nextId = 4
  /\ Len(graph.adj[2]) = 2

\* Batch sizes tried on every feature list, next to the builder's own.
BatchSizes == 1..3

RECURSIVE buildInBatches(_, _, _, _)
\* The graph after steps of the given batch size from feature index k.
buildInBatches(els, k, g, batch) ==
  LET last == Min(Len(els), k + batch)
      g2 == stepLoop(els, k, last, g)
  IN  IF last < Len(els) THEN buildInBatches(els, last, g2, batch) ELSE g2

\* C12: while the builder works its graph is the graph of one uninterrupted
\* pass over the features handled so far; the graph it delivers is that of
\* one pass over the whole list, with every feature handled; and steps of
\* any other batch size give the same graph.
C12_BatchSizeIrrelevant ==
  /\ BuildStage => graph = BuildOf(Handled)
  /\ pc = "resolved" =>
       /\ i = Len(dataToUse.elements)
       /\ graph = BuildOf(dataToUse.elements)
       /\ \A batch \in BatchSizes :
            buildInBatches(dataToUse.elements, 0, EmptyGraph, batch) = graph

\* The builder has delivered a graph of two canals that it built in more
\* than one step.
C12_Witness ==
  /\ pc = "resolved"
  /\ Len(dataToUse.elements) > BATCH
  /\ Len(graph.segments) = 2
  /\ graph.nextId >= 4

\* The value findWaterwayRoute returns for a feature list when nothing
\* interrupts it, and the graph it leaves.
RouteOf(s, e, els, speed) ==
  LET g0 == BuildOf(els)
      a == findNearestGraphNode([lat |-> s[1], lng |-> s[2]], g0, TRUE)
      b == findNearestGraphNode([lat |-> e[1], lng |-> e[2]], a.graph, TRUE)
      r == findShortestPath(a.res.id, b.res.id, b.graph)
  IN  IF Len(g0.segments) = 0 THEN [result |-> Null, graph |-> g0]
      ELSE IF a.res = Null \/ b.res = Null
           THEN [result |-> Null, graph |-> b.graph]
      ELSE IF r = Null THEN [result |-> Null, graph |-> b.graph]
      ELSE [result |-> routeResult(r, b.graph, speed), graph |-> b.graph]

HasElements(d) == d /= Null /\ "elements" \in DOMAIN d

\* C14: a call without a fetch collaborator issues no request, and returns
\* null when its feature set is absent or empty; the snapper and the solver
\* run only on a graph with a segment; and a call whose feature list builds
\* no segment returns null with the built graph untouched and no snap or
\* solver result.
C14_NoSegmentsNoRoute ==
  /\ ~fetchOverpass => requests = <<>>
  /\ (pc = "done" /\ ~fetchOverpass /\ insufficient(waterwaysData)) =>
       result = Null
  /\ pc \in {"snapEnd", "solve"} => Len(graph.segments) > 0
  /\ (pc = "done" /\ HasElements(dataToUse)
        /\ Len(BuildOf(dataToUse.elements).segments) = 0) =>
       /\ result = Null
       /\ graph = BuildOf(dataToUse.elements)
       /\ startNode = Null /\ endNode = Null /\ route = Null
  /\ (pc = "done" /\ ~HasElements(dataToUse)) =>
       /\ result = Null
       /\ graph = EmptyGraph
       /\ startNode = Null /\ endNode = Null /\ route = Null

\* A call without a collaborator on a list of one stream has returned null
\* from the zero-segment check.
C14_Witness ==
  /\ pc = "done"
  /\ ~fetchOverpass
  /\ HasElements(dataToUse)
  /\ Len(dataToUse.elements) = 1
  /\ Len(graph.segments) = 0
  /\ result = Null

\* Every request of the call has failed: the corridor request and each
\* tile request.
TotalFailure ==
  /\ corridor = "failed"
  /\ Len(tiles) > 0
  /\ \A k \in 1..Len(tiles) : tiles[k].state = "failed"

\* C15: a call whose corridor request and tile requests all fail returns
\* null, and a route that any call returns has a coordinate.
C15_FailureIsNoRoute ==
  pc = "done" =>
    /\ TotalFailure => result = Null
    /\ result /= Null => Len(result.coordinates) >= 1

\* The corridor request and all four tile requests of the long route have
\* failed and the call has returned.
C15_Witness ==
  /\ pc = "done"
  /\ TotalFailure
  /\ Len(tiles) = 4
  /\ result = Null

\* How often f occurs in the list s.
Occurrences(f, s) == Cardinality({k \in 1..Len(s) : s[k] = f})

\* The features a settled tile brought: those of its value, none if it
\* failed or its value has no elements.
Brought(tile) ==
  IF tile.state = "fetched" /\ "elements" \in DOMAIN tile.data
  THEN tile.data.elements ELSE <<>>

RECURSIVE SumOver(_, _)
SumOver(f, K) ==
  IF K = {} THEN 0
  ELSE LET k == CHOOSE x \in K : TRUE IN f[k] + SumOver(f, K \ {k})

\* C16: during and after the tile fallback the merged list holds every
\* feature as often as the succeeding tiles brought it and holds nothing
\* that lies in a failing tile only; the fallback hands its result on only
\* when no tile request is pending, and the result is the merged list.
C16_BestEffortMerge ==
  corridor = "failed" =>
    /\ \A f \in Catalogue :
         Occurrences(f, allElements) =
           SumOver([k \in 1..Len(tiles) |-> Occurrences(f, Brought(tiles[k]))],
                   1..Len(tiles))
    /\ Range(allElements) \subseteq Catalogue
    /\ \A f \in Range(allElements) :
         \E k \in 1..Len(tiles) :
           tiles[k].state = "fetched" /\ Within(f, tiles[k].bbox)
    /\ \A k \in 1..Len(tiles) :
         tiles[k].state = "fetched" /\ "elements" \in DOMAIN tiles[k].data =>
           \A f \in Catalogue :
             Within(f, tiles[k].bbox) => f \in Range(allElements)
    /\ pc /= "tiles" =>
         /\ \A k \in 1..Len(tiles) : tiles[k].state /= "pending"
         /\ dataToUse = [elements |-> allElements]

\* Of four tiles the first failed after the third and the second had
\* succeeded in that order, and the fallback has handed on their features.
C16_Witness ==
  /\ pc /= "tiles"
  /\ corridor = "failed"
  /\ Len(tiles) = 4
  /\ tiles[1].state = "failed"
  /\ tiles[4].state = "failed"
  /\ Len(allElements) = 2
  /\ Brought(tiles[3]) = <<allElements[1]>>
  /\ Brought(tiles[2]) = <<allElements[2]>>

\* The corridor of the call, as the request for it.
CorridorCall ==
  fetchCall(corridorBounds([lat |-> start[1], lng |-> start[2]],
                           [lat |-> end[1], lng |-> end[2]]))

\* No request is pending.
FetchFinished ==
  /\ corridor /= "pending"
  /\ \A k \in 1..Len(tiles) : tiles[k].state /= "pending"

\* C17: requests are issued only by a call with a collaborator whose
\* feature set is absent or empty; the first is the request for the whole
\* corridor and no later request is for the whole corridor again; further
\* requests exist only once the corridor request has failed; no two
\* requests are the same; and the builder works only when no request is
\* pending.
C17_RequestOrdering ==
  /\ requests /= <<>> =>
       /\ fetchOverpass
       /\ insufficient(waterwaysData)
       /\ requests[1] = CorridorCall
  /\ Len(requests) > 1 => corridor = "failed"
  /\ \A j \in 1..Len(requests) : \A k \in 1..Len(requests) :
       j /= k => requests[j] /= requests[k]
  /\ (pc \in {"timer", "resolved", "snapEnd", "solve"} \/ graph /= EmptyGraph) =>
       FetchFinished

\* The call has returned null or a route.
Completed ==
  /\ pc = "done"
  /\ result = Null \/ "coordinates" \in DOMAIN result

\* C18: every call, with or without a collaborator, with lists shorter and
\* longer than a batch and with every outcome of every request, reaches
\* the point where it has returned null or a route, and stays there.
C18_Completes == <>[]Completed

\* A call has returned after the tile fallback and a build of more than
\* one step.
C18_Witness ==
  /\ pc = "done"
  /\ corridor = "failed"
  /\ Len(dataToUse.elements) > BATCH
  /\ i = Len(dataToUse.elements)

\* C19 as claimed: totalDistance is the solver's distance, and totalTime
\* times the speed in metres per second is totalDistance (boatSpeed / 36 is
\* the speed in metres per second, totalDistance / 1000 the metres).
C19_TimeTimesSpeedIsDistance ==
  (pc = "done" /\ result /= Null) =>
    /\ result.totalDistance = route.meters
    /\ result.totalTime * boatSpeed * 1000 = 36 * result.totalDistance

\* C19, amended: totalDistance is the solver's distance, and totalTime is
\* the whole number of minutes nearest to the distance divided by the speed
\* in metres per second and by 60, the greater one of two equally near.
C19_TimeIsRoundedMinutes ==
  (pc = "done" /\ result /= Null) =>
    LET num == 3 * result.totalDistance
        den == 5000 * boatSpeed
    IN  /\ result.totalDistance = route.meters
        /\ 2 * den * result.totalTime <= 2 * num + den
        /\ 2 * num + den < 2 * den * (result.totalTime + 1)

\* A route was returned whose time is not 0 and was rounded upwards.
C19_Witness ==
  /\ pc = "done"
  /\ result /= Null
  /\ result.totalTime > 0
  /\ 5000 * boatSpeed * result.totalTime > 3 * result.totalDistance

Resolves(g) ==
  /\ \A u \in DOMAIN g.adj :
       \A e \in Range(g.adj[u]) :
         e[1] \in DOMAIN g.coords /\ e[1] \in DOMAIN g.adj
  /\ \A sg \in Range(g.segments) :
       /\ {sg.idA, sg.idB} \subseteq DOMAIN g.coords
       /\ {sg.idA, sg.idB} \subseteq DOMAIN g.adj

\* Coordinates of further snapper calls on a graph: the two of the call,
\* and one each next to a vertex, on a vertex and off every geometry.
Queries == {start, end, <<0, 1>>, <<0, 800>>, <<300, 300>>}

\* C21: in every state (after every builder step and every snapper call of
\* the computation) every neighbour id of every adjacency list and every
\* idA and idB of every segment has a coordinate entry and an adjacency
\* list, the coordinate map and the adjacency map have the same ids, and
\* a further snapper call, snapping or not, keeps this so.
C21_ReferentialIntegrity ==
  /\ Resolves(graph)
  /\ DOMAIN graph.coords = DOMAIN graph.adj
  /\ Range(graph.nodes) = DOMAIN graph.coords
  /\ GraphStage =>
       \A q \in Queries : \A snap \in BOOLEAN :
         Resolves(findNearestGraphNode([lat |-> q[1], lng |-> q[2]],
                                       graph, snap).graph)

\* Both coordinates were snapped onto new nodes, and a node that the
\* builder made has an arc to each of them.
C21_Witness ==
  /\ pc = "solve"
  /\ startNode.id /= endNode.id
  /\ \A t \in {startNode.id, endNode.id} :
       /\ t > Cardinality({sg.idA : sg \in Range(graph.segments)}
                           \cup {sg.idB : sg \in Range(graph.segments)})
       /\ \E a \in Arcs(graph) : a[2] = t /\ a[1] /= t

\* The first call as a record like that of the second.
FirstCall ==
  [waterwaysData |-> waterwaysData, start |-> start, end |-> end,
   boatSpeed |-> boatSpeed, pc |-> pc, dataToUse |-> dataToUse, i |-> i,
   graph |-> graph, startNode |-> startNode, endNode |-> endNode,
   route |-> route, result |-> result]

\* The graph that call c has at its position when no other call runs.
GraphAlone(c) ==
  LET els == c.waterwaysData.elements
      built == BuildOf(els)
      a == findNearestGraphNode([lat |-> c.start[1], lng |-> c.start[2]],
                                built, TRUE)
  IN  CASE c.pc = "begin" -> EmptyGraph
        [] c.pc \in {"timer", "resolved"} -> BuildOf(SubSeq(els, 1, c.i))
        [] c.pc = "snapEnd" -> a.graph
        [] c.pc \in {"solve", "done"} ->
             RouteOf(c.start, c.end, els, c.boatSpeed).graph

\* C22: of two calls whose steps interleave in any order, each has at every
\* position the graph (nodes, arcs, segments, snapped nodes) that it has at
\* that position when it runs alone, whatever the other call has done, and
\* each returns the value it returns when it runs alone.
C22_CallsAreIsolated ==
  \A c \in {FirstCall, concurrent} :
    /\ c.graph = GraphAlone(c)
    /\ c.pc = "done" =>
         c.result = RouteOf(c.start, c.end, c.waterwaysData.elements,
                            c.boatSpeed).result

\* Both calls are in progress on different feature lists: the first is
\* between two batches of its build while the second has snapped its start
\* onto a node that the first call's graph does not have.
C22_Witness ==
  /\ pc = "timer"
  /\ concurrent.pc = "snapEnd"
  /\ concurrent.waterwaysData /= waterwaysData
  /\ i > 0
  /\ concurrent.startNode.id \notin NodeIds(graph)
  /\ concurrent.startNode.id \in NodeIds(concurrent.graph)

\* C23: in every state, for every arc from u to v of weight w in the
\* adjacency list of u there is an arc from v to u of weight w in the list
\* of v, and the solver's answers from s to e and from e to s agree.
C23_ArcSymmetry ==
  /\ \A a \in Arcs(graph) : <<a[2], a[1], a[3]>> \in Arcs(graph)
  /\ GraphStage =>
       \A s \in NodeIds(graph) : \A e \in NodeIds(graph) :
         LET there == findShortestPath(s, e, graph)
             back == findShortestPath(e, s, graph)
         IN  /\ (there = Null) = (back = Null)
             /\ there /= Null => there.meters = back.meters

\* The projection of q onto the segment sg, and its distance from q.
SegProj(q, sg) ==
  LET p == nearestPointOnSegment(q, sg.a, sg.b) IN <<p[1], p[2]>>

SegDist(q, sg) == haversine(q, SegProj(q, sg))

\* The position in segs of the first of the segments nearest to q.
FirstNearest(q, segs) ==
  CHOOSE k \in 1..Len(segs) :
    /\ \A j \in 1..Len(segs) : SegDist(q, segs[j]) >= SegDist(q, segs[k])
    /\ \A j \in 1..(k - 1) : SegDist(q, segs[j]) > SegDist(q, segs[k])

\* C24: a snapping call on a built graph with segments returns, marked
\* snapped, the projection of the query onto the segment whose projected
\* point is nearest to the query, the first in the segment list of those
\* equally near, and the arcs of the returned node lead to the ends of
\* that segment; the nodes that the two snaps of a route computation
\* return are at the projections onto the segments so chosen.
C24_NearestFirstSegment ==
  (GraphStage /\ Len(graph.segments) > 0) =>
    /\ pc = "resolved" =>
       \A q \in {start, end} :
         LET r == findNearestGraphNode([lat |-> q[1], lng |-> q[2]],
                                       graph, TRUE)
             sg == graph.segments[FirstNearest(q, graph.segments)]
         IN  /\ r.res /= Null
             /\ r.res.snapped
             /\ r.res.at = SegProj(q, sg)
             /\ r.graph.adj[r.res.id][1][1] = sg.idA
             /\ {sg.idA, sg.idB} \subseteq
                  {e[1] : e \in Range(r.graph.adj[r.res.id])}
    /\ pc \in {"snapEnd", "solve"} =>
         startNode.at =
           SegProj(start, graph.segments[FirstNearest(start, graph.segments)])
    /\ pc = "solve" =>
         endNode.at =
           SegProj(end, graph.segments[FirstNearest(end, graph.segments)])

\* The start was snapped on a graph in which two segments with different
\* first ends are both nearest to it and a third segment is farther; the
\* returned node's first arc leads to the first end of the first of them.
C24_Witness ==
  /\ pc = "snapEnd"
  /\ startNode.snapped
  /\ \E j \in 1..Len(graph.segments) : \E k \in 1..Len(graph.segments) :
       /\ j < k
       /\ FirstNearest(start, graph.segments) = j
       /\ SegDist(start, graph.segments[k]) = SegDist(start, graph.segments[j])
       /\ graph.segments[k].idA /= graph.segments[j].idA
       /\ graph.adj[startNode.id][1][1] = graph.segments[j].idA
  /\ \E k \in 1..Len(graph.segments) :
       SegDist(start, graph.segments[k]) >
         SegDist(start, graph.segments[FirstNearest(start, graph.segments)])

\* The last call was findNearestGraphNode, with snap false or on a graph
\* without segments.
ScannedNodes ==
  \/ pc' = "findNearestGraphNode"
  \/ pc' = "findNearestGraphNode(snap)" /\ Len(graph.segments) = 0

\* C25: a findNearestGraphNode call with snap false, or on a graph without
\* segments, leaves the graph as it is (nodes, arcs, segments and nextId),
\* returns null exactly when the graph has no node, and otherwise returns,
\* marked not snapped, the id and coordinate of a node of the graph than
\* which no node is nearer to the query.
C25_NoSnapLeavesGraph ==
  [][(i' = i + 1 /\ ScannedNodes) =>
       /\ graph' = graph
       /\ (startNode' = Null) <=> (NodeIds(graph) = {})
       /\ startNode' /= Null =>
            /\ ~startNode'.snapped
            /\ startNode'.id \in NodeIds(graph)
            /\ startNode'.at = graph.coords[startNode'.id]
            /\ \A n \in NodeIds(graph) :
                 haversine(start', graph.coords[n])
                   >= haversine(start', startNode'.at)]_vars

\* A snapping call on a graph of two nodes and no segment has returned the
\* second node, which is the nearer one, and not snapped.
C25_Witness ==
  /\ pc = "findNearestGraphNode(snap)"
  /\ Len(graph.segments) = 0
  /\ graph.nextId = 3
  /\ startNode /= Null
  /\ startNode.id = 2
  /\ ~startNode.snapped
  /\ haversine(start, graph.coords[1]) > haversine(start, graph.coords[2])

\* The call is past the builder: buildGraphFromWaterways has delivered.
Delivered ==
  pc \in {"resolved", "snapEnd", "solve"} \/ (pc = "done" /\ dataToUse /= Null)

\* C26: no uninterrupted step of the builder handles more than BATCH
\* features, and each step before the last handles BATCH of them in input
\* order; at every moment the graph is that of the first i features, each
\* handled once; the builder waits for a timer exactly while features are
\* left, and delivers only with all features handled; once it has
\* delivered, no step of the builder runs again.
C26_BoundedBatches ==
  /\ [](/\ BuildStage => graph = BuildOf(Handled)
        /\ pc = "timer" => i < Len(dataToUse.elements)
        /\ Delivered => i = Len(dataToUse.elements))
  /\ [][/\ i' >= i
        /\ i' - i <= BATCH
        /\ pc' = "timer" => i' - i = BATCH
        /\ pc \in {"begin", "timer"} =>
             i' = Min(Len(dataToUse'.elements), i + BATCH)
        /\ pc \in {"begin", "timer"} /\ pc' \in {"timer", "resolved"} =>
             graph' = stepLoop(dataToUse'.elements, i, i', graph)
        /\ Delivered => pc' \notin {"timer", "resolved"} /\ i' = i]_vars

\* The builder has delivered the graph of a list of more than two batches,
\* which holds a feature that builds nothing and ends with a canal.
C26_Witness ==
  /\ pc = "resolved"
  /\ i = Len(dataToUse.elements)
  /\ i > 2 * BATCH
  /\ \E k \in 1..i : ~survives(dataToUse.elements[k])
  /\ survives(dataToUse.elements[i])
  /\ Len(graph.segments) > 0

RECURSIVE chain(_, _, _, _)
\* The ids met from u along prev up to startId or to 0, at most fuel of
\* them.
chain(u, startId, prev, fuel) ==
  IF u = 0 \/ fuel = 0 THEN <<>>
  ELSE IF u = startId THEN <<u>>
       ELSE <<u>> \o chain(prev[u], startId, prev, fuel - 1)

\* The graph has a zero-weight arc from a node to itself.
HasSelfLoop(g) == \E a \in Arcs(g) : a[1] = a[2] /\ a[3] = 0

\* No path joins node 1 and some node of the graph.
HasUnreachable(g) == NodeIds(g) \ component(g, {1}) /= {}

\* C27: on every graph on which a computation calls the solver (built and
\* snapped twice), and from every node to every node, the selection loop of findShortestPath is left with i at most the
\* node count (no more than node count + 1 runs), every run before the last
\* has visited one more node, the end node is never visited, and the loop
\* is left when the end node is selected or no unvisited node has a finite
\* distance; when the end node has a predecessor, the chain of predecessors
\* from it repeats no node and ends at startId, and it is the returned
\* path backwards.
C27_SolverTerminates ==
  pc = "solve" =>
    \A s \in NodeIds(graph) : \A e \in NodeIds(graph) :
      LET st == solve(s, e, graph)
          N == graph.nextId - 1
          u == selectMin(0, N, st.dist, st.visited, -1, Infinity)
          back == chain(e, s, st.prev, N + 1)
      IN  /\ st.i <= N
          /\ st.i = Cardinality({j \in 0..N : st.visited[j]})
          /\ ~st.visited[e]
          /\ u = -1 \/ u = e
          /\ (u = -1) <=> (\A j \in 0..N : st.visited[j] \/ st.dist[j] >= Infinity)
          /\ st.prev[e] /= 0 =>
               /\ back[Len(back)] = s
               /\ Cardinality(Range(back)) = Len(back)
               /\ findShortestPath(s, e, graph).path = reverse(back)

\* The solver has returned a path of three nodes on a graph with a
\* zero-weight arc from a node to itself and a node that cannot be reached.
C27_Witness ==
  /\ pc = "done"
  /\ route /= Null
  /\ Len(route.path) >= 3
  /\ HasSelfLoop(graph)
  /\ HasUnreachable(graph)

\* The step is a builder step, a snapper call, a solver call.
BuilderStep == pc \in {"begin", "timer"}

SnapperStep == pc \in {"resolved", "snapEnd"}

SolverStep == pc = "solve"

\* C28: in every step no node id leaves the graph, no key changes its id,
\* no node's coordinate changes and nextId does not fall; the segment list
\* keeps its entries and gains entries only in a builder step; a snapper
\* call leaves the segment list as it is, so that the second snap of a
\* computation scans the segments the first one scanned; and a solver call
\* leaves the whole graph as it is.
C28_GrowsOnly ==
  [][/\ NodeIds(graph) \subseteq NodeIds(graph')
     /\ \A id \in NodeIds(graph) : graph'.coords[id] = graph.coords[id]
     /\ \A key \in DOMAIN graph.nodes :
          key \in DOMAIN graph'.nodes /\ graph'.nodes[key] = graph.nodes[key]
     /\ graph'.nextId >= graph.nextId
     /\ Len(graph'.segments) >= Len(graph.segments)
     /\ SubSeq(graph'.segments, 1, Len(graph.segments)) = graph.segments
     /\ graph'.segments /= graph.segments => BuilderStep
     /\ SnapperStep => graph'.segments = graph.segments
     /\ (pc = "snapEnd" /\ dataToUse /= Null) =>
          graph.segments = BuildOf(dataToUse.elements).segments
     /\ SolverStep => graph' = graph]_vars

\* Both snaps have added a node of their own to a graph of two segments or
\* more, whose segment list is the one the builder delivered.
C28_Witness ==
  /\ pc = "solve"
  /\ graph.nextId = BuildOf(dataToUse.elements).nextId + 2
  /\ Len(graph.segments) >= 2
  /\ graph.segments = BuildOf(dataToUse.elements).segments
  /\ NodeIds(graph) /= NodeIds(BuildOf(dataToUse.elements))

RECURSIVE verticesOf(_, _)
\* The vertices of the features of els from position k that pass the
\* filter, in the order of the vertex loop.
verticesOf(els, k) ==
  IF k > Len(els) THEN <<>>
  ELSE (IF survives(els[k]) THEN els[k].geometry ELSE <<>>)
       \o verticesOf(els, k + 1)

\* The coordinates handed to graphAddNode so far, in the order of the
\* calls: the vertices of the handled features, then the projections of
\* the snaps.
Encountered ==
  (IF dataToUse /= Null /\ "elements" \in DOMAIN dataToUse
   THEN verticesOf(Handled, 1) ELSE <<>>)
  \o (IF startNode /= Null THEN <<startNode.at>> ELSE <<>>)
  \o (IF endNode /= Null THEN <<endNode.at>> ELSE <<>>)

RECURSIVE firstKeys(_, _, _)
\* The keys of cs from position k that are not in acc, appended to acc in
\* the order of their first occurrence.
firstKeys(cs, k, acc) ==
  IF k > Len(cs) THEN acc
  ELSE firstKeys(cs, k + 1,
                 IF SixDecimals(cs[k]) \in Range(acc) THEN acc
                 ELSE Append(acc, SixDecimals(cs[k])))

\* C29: in every state the node ids are exactly 1..nextId-1, the key map,
\* the coordinate map and the adjacency map each have nextId-1 entries, 0 is
\* no node id and no id of a returned path, and the k-th distinct key in
\* the order of the graphAddNode calls has id k.
C29_ConsecutiveIds ==
  LET n == graph.nextId - 1
      keys == firstKeys(Encountered, 1, <<>>)
  IN  /\ n >= 0
      /\ NodeIds(graph) = 1..n
      /\ DOMAIN graph.adj = 1..n
      /\ Range(graph.nodes) = 1..n
      /\ Cardinality(DOMAIN graph.nodes) = n
      /\ 0 \notin NodeIds(graph)
      /\ route /= Null => 0 \notin Range(route.path)
      /\ Len(keys) = n
      /\ \A k \in 1..n : graph.nodes[keys[k]] = k

\* Five keys have the ids 1 to 5 in the order of their first vertices and
\* projections, after more graphAddNode calls than keys, two of them for
\* different coordinates of one key.
C29_Witness ==
  /\ pc = "solve"
  /\ graph.nextId = 6
  /\ Len(Encountered) > 5
  /\ startNode.id = 4
  /\ endNode.id = 5
  /\ \E j \in 1..Len(Encountered) : \E k \in 1..Len(Encountered) :
       /\ Encountered[j] /= Encountered[k]
       /\ SixDecimals(Encountered[j]) = SixDecimals(Encountered[k])

\* A line feature of two vertices or more that passes the filter.
Contributing(el) ==
  /\ el.type = "way"
  /\ Len(el.geometry) >= 2
  /\ HasAccessibleType(el)
  /\ el.tags.waterway = "river" => survives(el)

\* The segments of a contributing feature in graph g: one for each pair of
\* consecutive vertices, between the nodes of their keys.
segmentsOf(el, g) ==
  [j \in 1..(Len(el.geometry) - 1) |->
     LET idA == g.nodes[SixDecimals(el.geometry[j])]
         idB == g.nodes[SixDecimals(el.geometry[j + 1])]
     IN  [a |-> g.coords[idA], b |-> g.coords[idB], idA |-> idA, idB |-> idB]]

RECURSIVE segmentsOfAll(_, _, _)
\* The segments of the features of els from position k, in list order.
segmentsOfAll(els, k, g) ==
  IF k > Len(els) THEN <<>>
  ELSE (IF Contributing(els[k]) THEN segmentsOf(els[k], g) ELSE <<>>)
       \o segmentsOfAll(els, k + 1, g)

\* C30: while and after the builder works, the segment list is, feature by
\* feature in list order, one segment for each pair of consecutive vertices
\* of each contributing feature, between the nodes of the two keys (from a
\* node to itself when the keys are equal), and nothing for a feature that
\* is no line, has fewer than two vertices or is filtered out; the segment
\* count is the sum of vertex count - 1 over the contributing features;
\* each node's adjacency list has one entry for each segment end at it,
\* with the other end and the segment's length; and the segment count is 0
\* exactly when the node count is 0.
C30_SegmentsPerFeature ==
  BuildStage =>
    /\ graph.segments = segmentsOfAll(Handled, 1, graph)
    /\ Len(graph.segments) =
         SumOver([k \in 1..Len(Handled) |->
                    IF Contributing(Handled[k])
                    THEN Len(Handled[k].geometry) - 1 ELSE 0],
                 1..Len(Handled))
    /\ \A id \in NodeIds(graph) :
         /\ Len(graph.adj[id]) = Cardinality(SegmentEnds(graph, id))
         /\ \A sg \in Range(graph.segments) :
              /\ sg.idA = id =>
                   <<sg.idB, haversine(sg.a, sg.b)>> \in Range(graph.adj[id])
              /\ sg.idB = id =>
                   <<sg.idA, haversine(sg.a, sg.b)>> \in Range(graph.adj[id])
    /\ (Len(graph.segments) = 0) <=> (NodeIds(graph) = {})

\* The builder has delivered three segments for a list of a canal of three
\* vertices, a canal whose two vertices have one key, and a feature that
\* contributes nothing; one segment joins a node to itself.
C30_Witness ==
  /\ pc = "resolved"
  /\ Len(dataToUse.elements) = 3
  /\ Len(graph.segments) = 3
  /\ \E sg \in Range(graph.segments) : sg.idA = sg.idB
  /\ \E el \in Range(dataToUse.elements) : ~Contributing(el)
  /\ \E el \in Range(dataToUse.elements) : Len(el.geometry) = 3

====
